---- MODULE Spec2Model ----
(***************************************************************************)
(* Telephony <-> realtime speech model bridge (src/app.py).                *)
(*                                                                         *)
(* Audio is modelled by provenance and length, not by sample values: a     *)
(* byte string is a sequence of runs <<src, n>>, "n bytes that come from   *)
(* source chunk src" (src = 0 is the zero padding added by flush).         *)
(***************************************************************************)
EXTENDS Integers, Sequences, FiniteSets, TLC

None == "None"

\* ------------------------------------------------------------------------
\* Byte strings as runs
\* ------------------------------------------------------------------------

RECURSIVE BufLen(_)
BufLen(b) == IF b = <<>> THEN 0 ELSE Head(b)[2] + BufLen(Tail(b))

\* b[:k]
RECURSIVE TakeBytes(_, _)
TakeBytes(b, k) ==
    IF k <= 0 \/ b = <<>> THEN <<>>
    ELSE IF Head(b)[2] <= k
         THEN <<Head(b)>> \o TakeBytes(Tail(b), k - Head(b)[2])
         ELSE << <<Head(b)[1], k>> >>

\* del b[:k]
RECURSIVE DropBytes(_, _)
DropBytes(b, k) ==
    IF k <= 0 \/ b = <<>> THEN b
    ELSE IF Head(b)[2] <= k
         THEN DropBytes(Tail(b), k - Head(b)[2])
         ELSE << <<Head(b)[1], Head(b)[2] - k>> >> \o Tail(b)

\* bytes(n) of one source, the empty string when n = 0
Chunk(src, n) == IF n > 0 THEN << <<src, n>> >> ELSE <<>>

\* The source of the bytes of a chunk of one source (0 for the empty string)
ChunkSource(b) == IF b = <<>> THEN 0 ELSE b[1][1]

\* ------------------------------------------------------------------------
\* audioop, as the bridge uses it (width 2, one channel)
\* ------------------------------------------------------------------------

RECURSIVE Gcd(_, _)
Gcd(a, b) == IF b = 0 THEN a ELSE Gcd(b, a % b)

\* audioop.ratecv(fragment, 2, 1, inrate, outrate, state): the number of
\* output bytes and the new state for a fragment of nbytes bytes.  The state
\* is <<d>>, d the phase counter of the converter, or <<>> for None: each
\* input sample adds outrate/g to d, and one output sample is written, and
\* inrate/g taken from d, for as long as d >= 0.  A fragment that is not a
\* whole number of samples raises audioop.error.
Ratecv(nbytes, inrate, outrate, state) ==
    LET g    == Gcd(inrate, outrate)
        inr  == inrate \div g
        outr == outrate \div g
        d0   == IF state = <<>> THEN -outr ELSE state[1]
        n    == nbytes \div 2
        d1   == d0 + n * outr
        k    == IF d1 >= 0 THEN (d1 \div inr) + 1 ELSE 0
    IN  IF nbytes % 2 # 0
        THEN [raised |-> TRUE, n |-> 0, state |-> state]
        ELSE [raised |-> FALSE, n |-> 2 * k, state |-> <<d1 - k * inr>>]

\* audioop.lin2ulaw(frame, 2): one companded byte per 16-bit sample
Lin2ulawLen(nbytes) == nbytes \div 2

\* audioop.ulaw2lin(mu, 2): one 16-bit sample per companded byte
Ulaw2linLen(nbytes) == nbytes * 2

\* ------------------------------------------------------------------------
\* TwilioMediaStreamSender: a record [stream_sid, rate_state, buffer, closed]
\* Every operation returns [sender, sent, await, raised]: the sender after
\* running to the next suspension (await ws.send_text) or to the return,
\* the media messages handed to ws.send_text on the way (none or one),
\* whether the coroutine is suspended in ws.send_text, and whether it raised.
\* ------------------------------------------------------------------------

FRAME_SAMPLES == 160

frame_bytes == FRAME_SAMPLES * 2

\* twilio_sender = None
NoSender == [none |-> TRUE]

NewTwilioMediaStreamSender(sid) ==
    [stream_sid |-> sid, rate_state |-> <<>>, buffer |-> <<>>, closed |-> FALSE]

\* The media message built from one frame cut off the buffer
MediaMessage(sid, frame) ==
    [event |-> "media", streamSid |-> sid, frame |-> frame,
     mulaw |-> Lin2ulawLen(BufLen(frame))]

Returned(p) == [sender |-> p, sent |-> <<>>, await |-> FALSE, raised |-> FALSE]

Raised(p) == [sender |-> p, sent |-> <<>>, await |-> FALSE, raised |-> TRUE]

\* Mutant: the loop runs while the buffer is not empty
FlushFullFramesAnyRemainder(p) ==
    IF BufLen(p.buffer) > 0 /\ ~p.closed
    THEN [sender |-> [p EXCEPT !.buffer = DropBytes(@, frame_bytes)],
          sent   |-> << MediaMessage(p.stream_sid, TakeBytes(p.buffer, frame_bytes)) >>,
          await  |-> TRUE, raised |-> FALSE]
    ELSE Returned(p)

\* _flush_full_frames from the loop test: cut one frame and suspend in
\* ws.send_text, or leave the loop
FlushFullFrames(p) ==
    IF BufLen(p.buffer) >= frame_bytes /\ ~p.closed
    THEN [sender |-> [p EXCEPT !.buffer = DropBytes(@, frame_bytes)],
          sent   |-> << MediaMessage(p.stream_sid, TakeBytes(p.buffer, frame_bytes)) >>,
          await  |-> TRUE, raised |-> FALSE]
    ELSE Returned(p)

\* Mutant: send_pcm24 extends the buffer and sends nothing
SendPcm24WithoutFlush(p, pcm24) ==
    IF p.closed \/ pcm24 = <<>> THEN Returned(p)
    ELSE LET r == Ratecv(BufLen(pcm24), 24000, 8000, p.rate_state)
         IN  IF r.raised THEN Raised(p)
             ELSE Returned([p EXCEPT !.rate_state = r.state,
                                     !.buffer = @ \o Chunk(pcm24[1][1], r.n)])

\* Mutant: send_pcm24 puts the new audio in front of the buffer
SendPcm24Prepends(p, pcm24) ==
    IF p.closed \/ pcm24 = <<>> THEN Returned(p)
    ELSE LET r == Ratecv(BufLen(pcm24), 24000, 8000, p.rate_state)
             p1 == [p EXCEPT !.rate_state = r.state,
                             !.buffer = Chunk(pcm24[1][1], r.n) \o @]
         IN  IF r.raised THEN Raised(p)
             ELSE IF r.n > 0 THEN FlushFullFrames(p1)
             ELSE Returned(p1)

\* send_pcm24(pcm24), pcm24 a byte string of one source
SendPcm24(p, pcm24) ==
    IF p.closed \/ pcm24 = <<>> THEN Returned(p)
    ELSE LET r == Ratecv(BufLen(pcm24), 24000, 8000, p.rate_state)
             p1 == [p EXCEPT !.rate_state = r.state,
                             !.buffer = @ \o Chunk(pcm24[1][1], r.n)]
         IN  IF r.raised THEN Raised(p)
             ELSE IF r.n > 0 THEN FlushFullFrames(p1)
             ELSE Returned(p1)

\* Mutant: flush returns without clearing the buffer
FlushKeepsRemainder(p, pad) ==
    IF p.closed THEN Returned(p)
    ELSE LET remainder == BufLen(p.buffer) % frame_bytes
             p1 == IF pad /\ p.buffer # <<>> /\ remainder # 0
                   THEN [p EXCEPT !.buffer = @ \o Chunk(0, frame_bytes - remainder)]
                   ELSE p
         IN  FlushFullFrames(p1)

\* flush(pad) up to the first suspension; the buffer is cleared when the
\* call returns
Flush(p, pad) ==
    IF p.closed THEN Returned([p EXCEPT !.buffer = <<>>])
    ELSE LET remainder == BufLen(p.buffer) % frame_bytes
             p1 == IF pad /\ p.buffer # <<>> /\ remainder # 0
                   THEN [p EXCEPT !.buffer = @ \o Chunk(0, frame_bytes - remainder)]
                   ELSE p
             r  == FlushFullFrames(p1)
         IN  IF r.await THEN r ELSE Returned([r.sender EXCEPT !.buffer = <<>>])

\* Mutant: a write that raises is taken for one that returned
SendTextDoneIgnoresFailure(p, co, ok) ==
    LET r == FlushFullFrames(p)
    IN  IF r.await \/ co # "flush" THEN r
        ELSE Returned([r.sender EXCEPT !.buffer = <<>>])

\* The coroutine co ("send_pcm24" or "flush") resumes from ws.send_text,
\* which returned (ok) or raised (~ok: the sender is closed, the loop left)
SendTextDone(p, co, ok) ==
    LET r == IF ok THEN FlushFullFrames(p)
                   ELSE Returned([p EXCEPT !.closed = TRUE])
    IN  IF r.await \/ co # "flush" THEN r
        ELSE Returned([r.sender EXCEPT !.buffer = <<>>])

\* Mutant: mark_closed keeps the buffer
MarkClosedKeepsBuffer(p) == [p EXCEPT !.closed = TRUE]

\* mark_closed()
MarkClosed(p) == [p EXCEPT !.closed = TRUE, !.buffer = <<>>]


\* ------------------------------------------------------------------------
\* State
\* ------------------------------------------------------------------------

VARIABLES
    ENABLE_LOCAL_PLAYBACK, \* module flag; the speaker exists iff it is set
    OPENAI_API_KEY,        \* whether the credential is in the environment
    main_pc,               \* audio_ws: where the receive loop is suspended
    stream_sid,            \* audio_ws.stream_sid
    frame_count,           \* audio_ws.frame_count
    pcm16_queue,           \* audio_ws.pcm16_queue (model-bound audio)
    twilio_sender,         \* audio_ws.twilio_sender: None or the sender record
    twilio_out,            \* media messages handed to ws.send_text, in order
    oai_client,            \* audio_ws.oai_client: None or "OAIClient"
    opened,                \* OAIClient._opened
    wsapp,                 \* the model socket and its run_forever thread
    send_q,                \* OAIClient._send_q
    sender_thread,         \* the thread started by on_open
    socket_out,            \* messages written to the model socket, in order
    socket_in,             \* messages the model socket delivered, in order
    loop_calls,            \* callbacks queued with loop.call_soon_threadsafe
    recv_q,                \* OAIClient.recv_q
    sent_json,             \* send_json calls, in order: <<producer, payload>>
    oai_recv_task,         \* the _oai_receiver task: where it is suspended
    conversation_state,    \* _oai_receiver.conversation_state
    speaking,              \* the asyncio.Event handed to _oai_receiver
    frames,                \* _oai_receiver.frames
    processed,             \* messages _oai_receiver took off recv_q, in order
    handed,                \* byte strings passed to send_pcm24, in order
    oai_send_task,         \* the _oai_sender task: where it is suspended
    rate_state,            \* _oai_sender.rate_state
    caller,                \* a lone caller of the sender: the coroutine it is in
    calls,                 \* number of calls that caller has made
    log,                   \* a lone caller of the client: its calls, in order
    pending,               \* the client a later start event started, in wait_open
    superseded,            \* clients and tasks whose variables were rebound
    codec,                 \* one 16-bit sample on its way through the codec
    active_calls,          \* live-translation backend: app.active_calls
    active_sessions,       \* ChatGPTRealtimeTranslator.active_sessions
    reply                  \* the last backend operation and how it ended

config_vars == <<ENABLE_LOCAL_PLAYBACK, OPENAI_API_KEY>>

main_vars == <<main_pc, stream_sid, frame_count, pcm16_queue>>

packer_vars == <<twilio_sender, twilio_out>>

client_vars == <<oai_client, opened, wsapp, send_q, sender_thread, socket_out,
                 socket_in, loop_calls, recv_q, sent_json>>

receiver_vars == <<oai_recv_task, conversation_state, speaking, frames,
                   processed, handed>>

pump_vars == <<oai_send_task, rate_state>>

unit_vars == <<caller, calls, log>>

restart_vars == <<pending, superseded>>

codec_vars == <<codec>>

registry_vars == <<active_calls, active_sessions, reply>>

vars == <<config_vars, main_vars, packer_vars, client_vars, receiver_vars,
          pump_vars, unit_vars, restart_vars, codec_vars, registry_vars>>

\* The state audio_ws and the objects it creates start from
BridgeInit ==
    /\ main_pc = "receive_text"
    /\ stream_sid = None
    /\ frame_count = 0
    /\ pcm16_queue = <<>>
    /\ twilio_out = <<>>
    /\ oai_client = None
    /\ opened = FALSE
    /\ wsapp = None
    /\ send_q = <<>>
    /\ sender_thread = None
    /\ socket_out = <<>>
    /\ socket_in = <<>>
    /\ loop_calls = <<>>
    /\ recv_q = <<>>
    /\ sent_json = <<>>
    /\ oai_recv_task = None
    /\ conversation_state = [user_speaking |-> FALSE, assistant_speaking |-> FALSE,
                             response_in_progress |-> FALSE, session_ready |-> FALSE]
    /\ speaking = FALSE
    /\ frames = 0
    /\ processed = <<>>
    /\ handed = <<>>
    /\ oai_send_task = None
    /\ rate_state = <<>>
    /\ caller = "idle"
    /\ calls = 0
    /\ log = <<>>
    /\ pending = [none |-> TRUE]
    /\ superseded = <<>>
    /\ codec = [pc |-> "idle"]
    /\ active_calls = <<>>
    /\ active_sessions = <<>>
    /\ reply = [n |-> 0, op |-> None, id |-> None, status |-> None]

\* ------------------------------------------------------------------------
\* The sender on its own: one caller makes any sequence of calls, each
\* awaited before the next; ws.send_text returns or raises.
\* ------------------------------------------------------------------------

MaxCalls == 4

\* Sizes in bytes of the 24 kHz fragments passed to send_pcm24: empty, a
\* lone sample, half a sample too many, less than a frame, exactly one
\* frame, more than two frames
PcmChunkSizes == {0, 2, 3, 482, 960, 1924}

PackerInit ==
    /\ BridgeInit
    /\ ENABLE_LOCAL_PLAYBACK = FALSE
    /\ OPENAI_API_KEY = TRUE
    /\ twilio_sender = NewTwilioMediaStreamSender("MZ1")

\* The caller's coroutine ran to r: its next suspension, return or raise
PackerRan(r, co) ==
    /\ twilio_sender' = r.sender
    /\ twilio_out' = twilio_out \o r.sent
    /\ caller' = IF r.await THEN co ELSE "idle"

CallSendPcm24(n) ==
    /\ caller = "idle" /\ calls < MaxCalls
    /\ calls' = calls + 1
    /\ PackerRan(SendPcm24(twilio_sender, Chunk(calls + 1, n)), "send_pcm24")
    /\ handed' = Append(handed, Chunk(calls + 1, n))
    /\ UNCHANGED <<config_vars, main_vars, client_vars, oai_recv_task,
                   conversation_state, speaking, frames, processed, pump_vars, log,
                   restart_vars, codec_vars, registry_vars>>

CallFlush(pad) ==
    /\ caller = "idle" /\ calls < MaxCalls
    /\ calls' = calls + 1
    /\ PackerRan(Flush(twilio_sender, pad), "flush")
    /\ UNCHANGED <<config_vars, main_vars, client_vars, receiver_vars, pump_vars, log,
                   restart_vars, codec_vars, registry_vars>>

CallMarkClosed ==
    /\ caller = "idle" /\ calls < MaxCalls
    /\ calls' = calls + 1
    /\ PackerRan(Returned(MarkClosed(twilio_sender)), "mark_closed")
    /\ UNCHANGED <<config_vars, main_vars, client_vars, receiver_vars, pump_vars, log,
                   restart_vars, codec_vars, registry_vars>>

CallerSendTextDone(ok) ==
    /\ caller \in {"send_pcm24", "flush"}
    /\ PackerRan(SendTextDone(twilio_sender, caller, ok), caller)
    /\ UNCHANGED <<calls, log, config_vars, main_vars, client_vars, receiver_vars,
                   pump_vars, restart_vars, codec_vars, registry_vars>>

PackerNext ==
    \/ \E n \in PcmChunkSizes : CallSendPcm24(n)
    \/ \E pad \in BOOLEAN : CallFlush(pad)
    \/ CallMarkClosed
    \/ \E ok \in BOOLEAN : CallerSendTextDone(ok)

SpecPacker == PackerInit /\ [][PackerNext]_vars

\* C1: every media message handed to the telephony socket carries exactly
\* one frame: FRAME_SAMPLES samples, 320 bytes of PCM cut off the buffer and
\* 160 mu-law bytes; no shorter or longer frame is ever sent, the padded
\* frame of flush(pad=True) included.
C1_EveryFrameIsOneFixedFrame ==
    \A i \in 1..Len(twilio_out) :
        /\ BufLen(twilio_out[i].frame) = 2 * FRAME_SAMPLES
        /\ twilio_out[i].mulaw = FRAME_SAMPLES

\* C1 witness: a flush(pad=True) has sent a zero-padded frame after whole
\* frames of audio, and a remainder is buffered again
C1_Witness ==
    /\ Len(twilio_out) >= 3
    /\ \E i \in 1..Len(twilio_out) :
           \E j \in 1..Len(twilio_out[i].frame) : twilio_out[i].frame[j][1] = 0
    /\ BufLen(twilio_sender.buffer) > 0
    /\ caller = "idle"

\* ------------------------------------------------------------------------
\* The bridge: audio_ws (the telephony receive loop), the _oai_sender and
\* _oai_receiver tasks, the OAIClient with its socket thread and its sender
\* thread, and the event loop's callback queue.  A task runs from one
\* suspension to the next in one step.
\* ------------------------------------------------------------------------

MaxMedia == 2

MaxEvents == 2

\* asyncio.Queue() and queue.Queue(): maxsize 0, a queue without a bound
pcm16_queue_maxsize == 0

send_q_maxsize == 0

\* Queue.full()
Full(q, maxsize) == maxsize > 0 /\ Len(q) >= maxsize

\* The None put on a queue to stop its reader
Sentinel == [none |-> TRUE]

\* A message on the model socket or a synthetic event of the client.  delta
\* is <<>> (no delta, or an empty string), <<n>> (base64 text that decodes
\* to n bytes) or <<-1>> (text base64 rejects); nbytes is the length of a
\* binary message.
Event(t, d) == [kind |-> "text", type |-> t, delta |-> d, nbytes |-> 0, from |-> "on_message"]

Binary(n) == [kind |-> "bytes", type |-> "", delta |-> <<>>, nbytes |-> n, from |-> "on_message"]

Synthetic(t, cb) == [kind |-> "text", type |-> t, delta |-> <<>>, nbytes |-> 0, from |-> cb]

\* A payload given to send_json
Payload(t, audio) == [type |-> t, audio |-> audio]

\* t.cancel() for a task variable: a task that is suspended ends with
\* CancelledError at its suspension, a finished one is left as it is
Cancel(t) == IF t \in {None, "done", "failed"} THEN t ELSE "cancelled"

\* Mutant: send_json puts the message at the head of the queue
SendJsonAtHead(q, payload) == <<payload>> \o q

\* OAIClient.send_json
SendJson(q, payload) == Append(q, payload)

\* Mutant: close returns without doing anything
CloseDoesNothing(q, w) == [send_q |-> q, wsapp |-> w]

\* OAIClient.close() with _send_q = q and the socket in state w: the stop
\* signal for the sender thread is put on the queue, and the socket, if
\* start created one and it is not closed yet, is closed (an exception of
\* WebSocketApp.close is swallowed)
Close(q, w) ==
    [send_q |-> Append(q, Sentinel),
     wsapp  |-> IF w \in {None, "closed"} THEN w ELSE "closing"]

\* A finally block that leaves the client as it is
FinallySkipsClose(ts, out) ==
    LET r == IF ts = NoSender THEN Returned(ts) ELSE Flush(ts, FALSE)
    IN  /\ pcm16_queue' = Append(pcm16_queue, Sentinel)
        /\ oai_recv_task' = Cancel(oai_recv_task)
        /\ oai_send_task' = Cancel(oai_send_task)
        /\ UNCHANGED <<send_q, wsapp>>
        /\ twilio_sender' = IF r.await \/ ts = NoSender THEN r.sender
                            ELSE MarkClosed(r.sender)
        /\ twilio_out' = out \o r.sent
        /\ main_pc' = IF r.await THEN "finally_flush" ELSE "done"

\* The end of the finally block of audio_ws, with the sender ts and the
\* telephony output out: flush(pad=False) up to its suspension and, when it
\* returns, mark_closed
FinallyFlush(ts, out) ==
    LET r == IF ts = NoSender THEN Returned(ts) ELSE Flush(ts, FALSE)
    IN  /\ twilio_sender' = IF r.await \/ ts = NoSender THEN r.sender
                            ELSE MarkClosed(r.sender)
        /\ twilio_out' = out \o r.sent
        /\ main_pc' = IF r.await THEN "finally_flush" ELSE "done"

\* close() of a client whose socket is w waits in self._thread.join: the
\* thread of a socket that start created is alive until on_close has run
CloseJoins(w) == Close(<<>>, w).wsapp = "closing"

\* The finally block of audio_ws, entered with the sender ts and the
\* telephony output out: the stop signal for the pump, the cancellation of
\* both tasks and OAIClient.close, which waits in _thread.join(timeout=1.0)
\* while the socket thread is alive; with no client or no live thread the
\* block goes on to flush(pad=False) and mark_closed
Finally(ts, out) ==
    /\ pcm16_queue' = Append(pcm16_queue, Sentinel)
    /\ oai_recv_task' = Cancel(oai_recv_task)
    /\ oai_send_task' = Cancel(oai_send_task)
    /\ IF oai_client # None
       THEN /\ send_q' = Close(send_q, wsapp).send_q
            /\ wsapp' = Close(send_q, wsapp).wsapp
       ELSE UNCHANGED <<send_q, wsapp>>
    /\ IF oai_client # None /\ CloseJoins(wsapp)
       THEN /\ twilio_sender' = ts
            /\ twilio_out' = out
            /\ main_pc' = "close_join"
       ELSE FinallyFlush(ts, out)

\* Start events handled on one connection
MaxStarts == 2

NoClient == [none |-> TRUE]

\* OAIClient(...) after start(), with the callbacks handed to the event
\* loop (loop_calls) until the loop puts them on its recv_q
NewOAIClient ==
    [opened |-> FALSE, wsapp |-> "connecting", send_q |-> <<>>,
     sender_thread |-> None, socket_out |-> <<>>, loop_calls |-> <<>>, recv_q |-> <<>>]

\* A start branch that does not test the credential
ReceiveStartIgnoresKey(sid) ==
    /\ main_pc = "receive_text" /\ oai_client = None
    /\ stream_sid' = sid
    /\ oai_client' = "OAIClient"
    /\ wsapp' = "connecting"
    /\ main_pc' = "wait_open"
    /\ UNCHANGED <<pcm16_queue, oai_recv_task, oai_send_task, send_q,
                   twilio_sender, twilio_out>>
    /\ UNCHANGED <<config_vars, frame_count, opened, sender_thread, socket_out,
                   socket_in, loop_calls, recv_q, sent_json, conversation_state,
                   speaking, frames, processed, handed, rate_state, unit_vars,
                   restart_vars, codec_vars, registry_vars>>

\* event == "start": without the credential the handler raises; with it a
\* client is created and started, and the loop waits in its wait_open.  The
\* branch does not test whether the connection has a client already: then
\* oai_client is rebound to the new client (pending) while oai_recv_task,
\* oai_send_task and twilio_sender still name what the start before made
ReceiveStart(sid) ==
    /\ main_pc = "receive_text"
    /\ stream_sid' = sid
    /\ IF ~OPENAI_API_KEY
       THEN /\ Finally(twilio_sender, twilio_out)
            /\ UNCHANGED <<oai_client, pending>>
       ELSE IF oai_client = None
       THEN /\ oai_client' = "OAIClient"
            /\ wsapp' = "connecting"
            /\ main_pc' = "wait_open"
            /\ UNCHANGED <<pcm16_queue, oai_recv_task, oai_send_task, send_q,
                           twilio_sender, twilio_out, pending>>
       ELSE /\ Len(superseded) + 1 < MaxStarts
            /\ pending' = NewOAIClient
            /\ main_pc' = "wait_open_again"
            /\ UNCHANGED <<oai_client, wsapp, pcm16_queue, oai_recv_task,
                           oai_send_task, send_q, twilio_sender, twilio_out>>
    /\ UNCHANGED <<config_vars, frame_count, opened, sender_thread, socket_out,
                   socket_in, loop_calls, recv_q, sent_json, conversation_state,
                   speaking, frames, processed, handed, rate_state, unit_vars,
                   superseded, codec_vars, registry_vars>>

\* The start event of a connection that has had none: the telephony side
\* opens each stream with one start event
FirstStart(sid) == oai_client = None /\ ReceiveStart(sid)

\* wait_open returns True: session.update and conversation.item.create are
\* submitted, the sender is created if the start event had a streamSid, and
\* both tasks are created
WaitOpenTrue ==
    /\ main_pc = "wait_open" /\ opened
    /\ send_q' = SendJson(SendJson(send_q, Payload("session.update", <<>>)),
                          Payload("conversation.item.create", <<>>))
    /\ sent_json' = sent_json \o << <<"audio_ws", Payload("session.update", <<>>)>>,
                                   <<"audio_ws", Payload("conversation.item.create", <<>>)>> >>
    /\ twilio_sender' = IF stream_sid # None
                        THEN NewTwilioMediaStreamSender(stream_sid)
                        ELSE twilio_sender
    /\ oai_recv_task' = "get"
    /\ oai_send_task' = "get"
    /\ main_pc' = "receive_text"
    /\ UNCHANGED <<config_vars, stream_sid, frame_count, pcm16_queue, twilio_out,
                   oai_client, opened, wsapp, sender_thread, socket_out, socket_in,
                   loop_calls, recv_q, conversation_state, speaking, frames,
                   processed, handed, rate_state, unit_vars,
                   restart_vars, codec_vars, registry_vars>>

\* wait_open returns False (the timeout passed before the socket opened):
\* the handler raises
WaitOpenFalse ==
    /\ main_pc = "wait_open" /\ ~opened
    /\ Finally(twilio_sender, twilio_out)
    /\ UNCHANGED <<config_vars, stream_sid, frame_count, oai_client, opened,
                   sender_thread, socket_out, socket_in, loop_calls, recv_q,
                   sent_json, conversation_state, speaking, frames, processed,
                   handed, rate_state, unit_vars,
                   restart_vars, codec_vars, registry_vars>>

\* The mu-law bytes of a media payload given by n: n itself, and none for
\* the payload that is there and decodes to the empty string (n = -2)
PayloadBytes(n) == IF n > 0 THEN n ELSE 0

\* event == "media" with a payload of n mu-law bytes (0: no payload, and the
\* loop continues; -1: text base64.b64decode rejects, which raises out of
\* the receive loop, so that the finally block runs; -2: text that decodes
\* to no bytes, such as "====", which is queued and counted as a frame)
ReceiveMedia(n) ==
    /\ main_pc = "receive_text" /\ frame_count < MaxMedia
    /\ ~Full(pcm16_queue, pcm16_queue_maxsize)
    /\ IF n = -1
       THEN /\ Finally(twilio_sender, twilio_out)
            /\ UNCHANGED <<stream_sid, frame_count, oai_client, opened,
                           sender_thread, socket_out, socket_in, loop_calls,
                           recv_q, sent_json, conversation_state, speaking,
                           frames, processed, handed, rate_state>>
       ELSE /\ IF n = 0
               THEN UNCHANGED <<pcm16_queue, frame_count>>
               ELSE /\ pcm16_queue' = Append(pcm16_queue,
                                             [chunk8k |-> Chunk(frame_count + 1,
                                                                Ulaw2linLen(PayloadBytes(n)))])
                    /\ frame_count' = frame_count + 1
            /\ UNCHANGED <<main_pc, stream_sid, packer_vars, client_vars,
                           receiver_vars, pump_vars>>
    /\ UNCHANGED <<config_vars, unit_vars,
                   restart_vars, codec_vars, registry_vars>>

\* A telephony message that is no JSON: json.loads raises JSONDecodeError
\* and the loop continues with the next message
ReceiveNotJson ==
    /\ main_pc = "receive_text"
    /\ UNCHANGED vars

\* event == "stop": flush(pad=True) up to its suspension; when it returns
\* the loop is left and the finally block runs
ReceiveStop ==
    /\ main_pc = "receive_text"
    /\ LET r == IF twilio_sender = NoSender THEN Returned(twilio_sender)
                ELSE Flush(twilio_sender, TRUE)
       IN  IF r.await
           THEN /\ twilio_sender' = r.sender
                /\ twilio_out' = twilio_out \o r.sent
                /\ main_pc' = "stop_flush"
                /\ UNCHANGED <<pcm16_queue, oai_recv_task, oai_send_task, send_q, wsapp>>
           ELSE Finally(r.sender, twilio_out \o r.sent)
    /\ UNCHANGED <<config_vars, stream_sid, frame_count, oai_client, opened,
                   sender_thread, socket_out, socket_in, loop_calls, recv_q,
                   sent_json, conversation_state, speaking, frames, processed,
                   handed, rate_state, unit_vars,
                   restart_vars, codec_vars, registry_vars>>

\* ws.send_text returns or raises inside the flush(pad=True) of stop
StopFlushSendTextDone(ok) ==
    /\ main_pc = "stop_flush"
    /\ LET r == SendTextDone(twilio_sender, "flush", ok)
       IN  IF r.await
           THEN /\ twilio_sender' = r.sender
                /\ twilio_out' = twilio_out \o r.sent
                /\ UNCHANGED <<main_pc, pcm16_queue, oai_recv_task, oai_send_task,
                               send_q, wsapp>>
           ELSE Finally(r.sender, twilio_out \o r.sent)
    /\ UNCHANGED <<config_vars, stream_sid, frame_count, oai_client, opened,
                   sender_thread, socket_out, socket_in, loop_calls, recv_q,
                   sent_json, conversation_state, speaking, frames, processed,
                   handed, rate_state, unit_vars,
                   restart_vars, codec_vars, registry_vars>>

\* receive_text raises WebSocketDisconnect
ReceiveDisconnect ==
    /\ main_pc = "receive_text"
    /\ Finally(twilio_sender, twilio_out)
    /\ UNCHANGED <<config_vars, stream_sid, frame_count, oai_client, opened,
                   sender_thread, socket_out, socket_in, loop_calls, recv_q,
                   sent_json, conversation_state, speaking, frames, processed,
                   handed, rate_state, unit_vars,
                   restart_vars, codec_vars, registry_vars>>

\* _thread.join in close() returns, the socket thread having ended or the
\* second being over: the finally block goes on with flush(pad=False)
CloseJoinDone ==
    /\ main_pc = "close_join"
    /\ FinallyFlush(twilio_sender, twilio_out)
    /\ UNCHANGED <<config_vars, stream_sid, frame_count, pcm16_queue, client_vars,
                   receiver_vars, pump_vars, unit_vars,
                   restart_vars, codec_vars, registry_vars>>

\* ws.send_text returns or raises inside the flush(pad=False) of the
\* finally block; mark_closed follows the flush
FinallyFlushSendTextDone(ok) ==
    /\ main_pc = "finally_flush"
    /\ LET r == SendTextDone(twilio_sender, "flush", ok)
       IN  /\ twilio_sender' = IF r.await THEN r.sender ELSE MarkClosed(r.sender)
           /\ twilio_out' = twilio_out \o r.sent
           /\ main_pc' = IF r.await THEN "finally_flush" ELSE "done"
    /\ UNCHANGED <<config_vars, stream_sid, frame_count, pcm16_queue, client_vars,
                   receiver_vars, pump_vars, unit_vars,
                   restart_vars, codec_vars, registry_vars>>

\* Mutant: the pump takes the newest item of the queue
QueueGetLast(q) == [item |-> q[Len(q)], rest |-> SubSeq(q, 1, Len(q) - 1)]

\* asyncio.Queue.get() on a queue that is not empty
QueueGet(q) == [item |-> Head(q), rest |-> Tail(q)]

\* _oai_sender: one chunk taken off pcm16_queue is resampled to 24 kHz and
\* submitted as input_audio_buffer.append; the None ends the task
OaiSenderGet ==
    /\ oai_send_task = "get" /\ pcm16_queue # <<>>
    /\ pcm16_queue' = QueueGet(pcm16_queue).rest
    /\ IF QueueGet(pcm16_queue).item = Sentinel
       THEN /\ oai_send_task' = "done"
            /\ UNCHANGED <<rate_state, send_q, sent_json>>
       ELSE LET chunk8k == QueueGet(pcm16_queue).item.chunk8k
                r == Ratecv(BufLen(chunk8k), 8000, 24000, rate_state)
                payload == Payload("input_audio_buffer.append",
                                   Chunk(ChunkSource(chunk8k), r.n))
            IN  /\ rate_state' = r.state
                /\ send_q' = SendJson(send_q, payload)
                /\ sent_json' = Append(sent_json, <<"_oai_sender", payload>>)
                /\ UNCHANGED oai_send_task
    /\ UNCHANGED <<config_vars, main_pc, stream_sid, frame_count, packer_vars,
                   oai_client, opened, wsapp, sender_thread, socket_out, socket_in,
                   loop_calls, recv_q, receiver_vars, unit_vars,
                   restart_vars, codec_vars, registry_vars>>

\* Mutant: the sender thread takes the newest message of the queue
SenderTakesLast(q) == [msg |-> q[Len(q)], rest |-> SubSeq(q, 1, Len(q) - 1)]

\* self._send_q.get() in the sender thread
SenderTakes(q) == [msg |-> Head(q), rest |-> Tail(q)]

\* Mutant: a write that raises is skipped and the thread goes on
SenderThreadGetSurvivesFailure ==
    /\ sender_thread = "running" /\ send_q # <<>>
    /\ LET t == SenderTakes(send_q)
       IN  /\ send_q' = t.rest
           /\ IF t.msg # Sentinel
              THEN /\ socket_out' = IF wsapp = "open" THEN Append(socket_out, t.msg)
                                    ELSE socket_out
                   /\ UNCHANGED sender_thread
              ELSE /\ sender_thread' = "exited"
                   /\ UNCHANGED socket_out
    /\ UNCHANGED <<config_vars, main_vars, packer_vars, oai_client, opened, wsapp,
                   socket_in, loop_calls, recv_q, sent_json, receiver_vars,
                   pump_vars, unit_vars,
                   restart_vars, codec_vars, registry_vars>>

\* on_open.sender: one message taken off _send_q is written to the socket;
\* the None, or a write that raises (the socket is not open), ends the thread
SenderThreadGet ==
    /\ sender_thread = "running" /\ send_q # <<>>
    /\ LET t == SenderTakes(send_q)
       IN  /\ send_q' = t.rest
           /\ IF t.msg # Sentinel /\ wsapp = "open"
              THEN /\ socket_out' = Append(socket_out, t.msg)
                   /\ UNCHANGED sender_thread
              ELSE /\ sender_thread' = "exited"
                   /\ UNCHANGED socket_out
    /\ UNCHANGED <<config_vars, main_vars, packer_vars, oai_client, opened, wsapp,
                   socket_in, loop_calls, recv_q, sent_json, receiver_vars,
                   pump_vars, unit_vars,
                   restart_vars, codec_vars, registry_vars>>

\* on_open: the socket is open, _opened is set and the sender thread starts
OnOpen ==
    /\ wsapp = "connecting"
    /\ wsapp' = "open"
    /\ opened' = TRUE
    /\ sender_thread' = "running"
    /\ UNCHANGED <<config_vars, main_vars, packer_vars, oai_client, send_q,
                   socket_out, socket_in, loop_calls, recv_q, sent_json,
                   receiver_vars, pump_vars, unit_vars,
                   restart_vars, codec_vars, registry_vars>>

\* on_message: the message is handed to the event loop for recv_q
OnMessage(m) ==
    /\ wsapp = "open"
    /\ socket_in' = Append(socket_in, m)
    /\ loop_calls' = Append(loop_calls, m)
    /\ UNCHANGED <<config_vars, main_vars, packer_vars, oai_client, opened, wsapp,
                   send_q, sender_thread, socket_out, recv_q, sent_json,
                   receiver_vars, pump_vars, unit_vars,
                   restart_vars, codec_vars, registry_vars>>

\* on_error: a transport error while connecting or open; the synthetic
\* error event is handed to the event loop, and on_close follows
OnError ==
    /\ wsapp \in {"connecting", "open"}
    /\ wsapp' = "errored"
    /\ loop_calls' = Append(loop_calls, Synthetic("error", "on_error"))
    /\ UNCHANGED <<config_vars, main_vars, packer_vars, oai_client, opened,
                   send_q, sender_thread, socket_out, socket_in, recv_q, sent_json,
                   receiver_vars, pump_vars, unit_vars,
                   restart_vars, codec_vars, registry_vars>>

\* on_close: the peer closed the socket, an error ended it or close() was
\* called; the synthetic closed event is handed to the event loop
OnClose ==
    /\ wsapp \in {"open", "errored", "closing"}
    /\ wsapp' = "closed"
    /\ loop_calls' = Append(loop_calls, Synthetic("closed", "on_close"))
    /\ UNCHANGED <<config_vars, main_vars, packer_vars, oai_client, opened,
                   send_q, sender_thread, socket_out, socket_in, recv_q, sent_json,
                   receiver_vars, pump_vars, unit_vars,
                   restart_vars, codec_vars, registry_vars>>

\* An event loop that runs its newest callback first
LoopTakesLast(q) == [msg |-> q[Len(q)], rest |-> SubSeq(q, 1, Len(q) - 1)]

\* The event loop's next callback
LoopTakes(q) == [msg |-> Head(q), rest |-> Tail(q)]

\* The event loop runs, which it does not while audio_ws waits in the join
\* of close()
LoopRuns == main_pc # "close_join"

\* The event loop runs recv_q.put_nowait(message)
LoopCall ==
    /\ LoopRuns
    /\ loop_calls # <<>>
    /\ LET t == LoopTakes(loop_calls)
       IN  /\ loop_calls' = t.rest
           /\ recv_q' = Append(recv_q, t.msg)
    /\ UNCHANGED <<config_vars, main_vars, packer_vars, oai_client, opened, wsapp,
                   send_q, sender_thread, socket_out, socket_in, sent_json,
                   receiver_vars, pump_vars, unit_vars,
                   restart_vars, codec_vars, registry_vars>>

AudioDeltaTypes == {"response.audio.delta", "response.output_audio.delta"}

AudioDoneTypes == {"response.audio.done", "response.output_audio.done"}

\* Mutant: response.done leaves assistant_speaking as it is
OnEventTypeDoneKeepsSpeaking(cs, t) ==
    CASE t = "session.created" -> [cs EXCEPT !.session_ready = TRUE]
      [] t = "input_audio_buffer.speech_started" -> [cs EXCEPT !.user_speaking = TRUE]
      [] t = "input_audio_buffer.speech_stopped" -> [cs EXCEPT !.user_speaking = FALSE]
      [] t = "response.created" -> [cs EXCEPT !.response_in_progress = TRUE]
      [] t = "response.done" -> [cs EXCEPT !.response_in_progress = FALSE]
      [] t \in AudioDoneTypes -> cs
      [] OTHER -> cs

\* Mutant: response.audio.done leaves assistant_speaking as it is
OnEventTypeAudioDoneKeepsSpeaking(cs, t) ==
    CASE t = "session.created" -> [cs EXCEPT !.session_ready = TRUE]
      [] t = "input_audio_buffer.speech_started" -> [cs EXCEPT !.user_speaking = TRUE]
      [] t = "input_audio_buffer.speech_stopped" -> [cs EXCEPT !.user_speaking = FALSE]
      [] t = "response.created" -> [cs EXCEPT !.response_in_progress = TRUE]
      [] t = "response.done" -> [cs EXCEPT !.response_in_progress = FALSE,
                                           !.assistant_speaking = FALSE]
      [] OTHER -> cs

\* Mutant: speech_started also ends the assistant's turn
OnEventTypeSpeechStartedInterrupts(cs, t) ==
    CASE t = "session.created" -> [cs EXCEPT !.session_ready = TRUE]
      [] t = "input_audio_buffer.speech_started" -> [cs EXCEPT !.user_speaking = TRUE,
                                                               !.assistant_speaking = FALSE]
      [] t = "input_audio_buffer.speech_stopped" -> [cs EXCEPT !.user_speaking = FALSE]
      [] t = "response.created" -> [cs EXCEPT !.response_in_progress = TRUE]
      [] t = "response.done" -> [cs EXCEPT !.response_in_progress = FALSE,
                                           !.assistant_speaking = FALSE]
      [] t \in AudioDoneTypes -> [cs EXCEPT !.assistant_speaking = FALSE]
      [] OTHER -> cs

\* conversation_state after the branch of event type t, the audio delta
\* branch apart (it sets assistant_speaking once the audio is handled)
OnEventType(cs, t) ==
    CASE t = "session.created" -> [cs EXCEPT !.session_ready = TRUE]
      [] t = "input_audio_buffer.speech_started" -> [cs EXCEPT !.user_speaking = TRUE]
      [] t = "input_audio_buffer.speech_stopped" -> [cs EXCEPT !.user_speaking = FALSE]
      [] t = "response.created" -> [cs EXCEPT !.response_in_progress = TRUE]
      [] t = "response.done" -> [cs EXCEPT !.response_in_progress = FALSE,
                                           !.assistant_speaking = FALSE]
      [] t \in AudioDoneTypes -> [cs EXCEPT !.assistant_speaking = FALSE]
      [] OTHER -> cs

\* Payloads the branch of event type t submits with send_json
SubmittedOn(cs, t) == <<>>

\* handle_assistant_audio(pcm24) up to the suspension in send_pcm24 or to
\* its end: nothing for an empty string; np.frombuffer raises on half a
\* sample when the speaker is written; send_pcm24 when there is a sender.
\* called: send_pcm24 was called with pcm24.
HandleAssistantAudio(ts, pcm24, playback) ==
    IF pcm24 = <<>> THEN [run |-> Returned(ts), called |-> FALSE]
    ELSE IF playback /\ BufLen(pcm24) % 2 # 0 THEN [run |-> Raised(ts), called |-> FALSE]
    ELSE IF ts # NoSender THEN [run |-> SendPcm24(ts, pcm24), called |-> TRUE]
    ELSE [run |-> Returned(ts), called |-> FALSE]

\* The audio a message carries, as the byte string handed on: a binary
\* message as it is, a delta event's base64 text decoded
ReceiverAudio(msg, src) ==
    IF msg.kind = "bytes" THEN Chunk(src, msg.nbytes)
    ELSE IF msg.kind = "text" /\ msg.type \in AudioDeltaTypes
            /\ msg.delta # <<>> /\ msg.delta[1] > 0
         THEN Chunk(src, msg.delta[1])
         ELSE <<>>

\* _oai_receiver with the sender ts, the state cs and the speaking event
\* sp: the message msg, taken off recv_q, is handled up to the next
\* suspension.  A binary message goes to handle_assistant_audio; text that
\* is no JSON is ignored; JSON that is no object, or has neither type nor
\* event, raises AttributeError and ends the task; an exception in the
\* delta branch is caught.  src names the audio of the message.
ReceiverStep(msg, src, ts, cs, sp) ==
    LET isDelta == msg.kind = "text" /\ msg.type \in AudioDeltaTypes /\ msg.delta # <<>>
        isDone  == msg.kind = "text" /\ msg.type \in AudioDoneTypes
        decoded == ~isDelta \/ msg.delta[1] >= 0
        pcm24   == ReceiverAudio(msg, src)
        a       == IF (msg.kind = "bytes" \/ isDelta) /\ decoded
                   THEN HandleAssistantAudio(ts, pcm24, ENABLE_LOCAL_PLAYBACK)
                   ELSE [run |-> Returned(ts), called |-> FALSE]
        r       == IF isDone /\ ts # NoSender
                   THEN Flush(ts, TRUE)
                   ELSE a.run
        fails   == \/ msg.kind = "bytes" /\ r.raised
                   \/ msg.kind = "json_array"
                   \/ msg.kind = "text" /\ msg.type = None
        handled == (msg.kind = "bytes" \/ isDelta) /\ decoded /\ ~r.raised /\ ~r.await
        cs1     == IF msg.kind = "text" THEN OnEventType(cs, msg.type) ELSE cs
    IN  [sender    |-> r.sender,
         sent      |-> r.sent,
         handed    |-> IF a.called THEN <<pcm24>> ELSE <<>>,
         frames    |-> IF handled /\ pcm24 # <<>> THEN 1 ELSE 0,
         cs        |-> IF isDelta /\ handled THEN [cs1 EXCEPT !.assistant_speaking = TRUE]
                       ELSE cs1,
         speaking  |-> IF isDelta /\ handled THEN TRUE
                       ELSE IF msg.kind = "text" /\ (msg.type = "response.done" \/ isDone)
                            THEN FALSE
                       ELSE sp,
         submitted |-> IF msg.kind = "text" THEN SubmittedOn(cs, msg.type) ELSE <<>>,
         task      |-> IF fails THEN "failed"
                       ELSE IF ~r.await THEN "get"
                       ELSE IF isDone THEN "flush"
                       ELSE IF isDelta THEN "send_pcm24_delta"
                       ELSE "send_pcm24_bytes"]

\* The _oai_receiver task the variable oai_recv_task names takes one
\* message off recv_q
OaiReceiverGet ==
    /\ oai_recv_task = "get" /\ recv_q # <<>>
    /\ LET msg == QueueGet(recv_q).item
           r   == ReceiverStep(msg, Len(processed) + 1, twilio_sender,
                               conversation_state, speaking)
       IN  /\ recv_q' = QueueGet(recv_q).rest
           /\ processed' = Append(processed, msg)
           /\ twilio_sender' = r.sender
           /\ twilio_out' = twilio_out \o r.sent
           /\ handed' = handed \o r.handed
           /\ frames' = frames + r.frames
           /\ conversation_state' = r.cs
           /\ speaking' = r.speaking
           /\ send_q' = send_q \o r.submitted
           /\ sent_json' = sent_json \o [i \in 1..Len(r.submitted) |->
                                             <<"_oai_receiver", r.submitted[i]>>]
           /\ oai_recv_task' = r.task
    /\ UNCHANGED <<config_vars, main_vars, oai_client, opened, wsapp, sender_thread,
                   socket_out, socket_in, loop_calls, pump_vars, unit_vars,
                   restart_vars, codec_vars, registry_vars>>

\* ws.send_text returns or raises inside the send_pcm24 or flush(pad=True)
\* an _oai_receiver suspended at task is in; when the call returns, the
\* audio counts as handled and the delta branch sets assistant_speaking
\* and the speaking event
ReceiverResume(task, ts, cs, sp, ok) ==
    LET co == IF task = "flush" THEN "flush" ELSE "send_pcm24"
        r  == SendTextDone(ts, co, ok)
        returned == ~r.await
    IN  [sender   |-> r.sender,
         sent     |-> r.sent,
         task     |-> IF returned THEN "get" ELSE task,
         frames   |-> IF returned /\ co = "send_pcm24" THEN 1 ELSE 0,
         cs       |-> IF returned /\ task = "send_pcm24_delta"
                      THEN [cs EXCEPT !.assistant_speaking = TRUE]
                      ELSE cs,
         speaking |-> IF returned /\ task = "send_pcm24_delta" THEN TRUE ELSE sp]

\* The task suspended in a write to the telephony socket
InSendText(task) == task \in {"send_pcm24_bytes", "send_pcm24_delta", "flush"}

\* ws.send_text returns or raises in the _oai_receiver task the variable
\* oai_recv_task names
OaiReceiverSendTextDone(ok) ==
    /\ InSendText(oai_recv_task)
    /\ LET r == ReceiverResume(oai_recv_task, twilio_sender, conversation_state,
                               speaking, ok)
       IN  /\ twilio_sender' = r.sender
           /\ twilio_out' = twilio_out \o r.sent
           /\ oai_recv_task' = r.task
           /\ frames' = frames + r.frames
           /\ conversation_state' = r.cs
           /\ speaking' = r.speaking
    /\ UNCHANGED <<config_vars, main_vars, client_vars, processed, handed,
                   pump_vars, unit_vars,
                   restart_vars, codec_vars, registry_vars>>

\* _handle_interruption: submits response.cancel (no branch of
\* _oai_receiver calls it)
HandleInterruption(q) == SendJson(q, Payload("response.cancel", <<>>))

\* streamSid of the start event: present or missing
StreamSids == {"MZ1", None}

\* mu-law bytes in a media event's payload: none, or 20 ms of audio
MediaPayloads == {0, 160}

\* Model messages of the bridge specification
ModelMessages ==
    { Event("input_audio_buffer.speech_started", <<>>),
      Event("response.audio.delta", <<1924>>),
      Event("response.audio.done", <<>>),
      Binary(3) }

Init ==
    /\ BridgeInit
    /\ ENABLE_LOCAL_PLAYBACK \in BOOLEAN
    /\ OPENAI_API_KEY \in BOOLEAN
    /\ twilio_sender = NoSender

\* Steps of the telephony side: messages and the disconnect of the
\* telephony socket, and the end of its writes
TelephonyNext ==
    \/ \E sid \in StreamSids : FirstStart(sid)
    \/ \E n \in MediaPayloads : ReceiveMedia(n)
    \/ ReceiveStop
    \/ ReceiveDisconnect

\* Steps of the model socket other than the delivery of a message
SocketNext ==
    \/ OnOpen
    \/ OnError
    \/ OnClose

\* Steps the bridge takes by itself
BridgeNext ==
    \/ WaitOpenTrue
    \/ WaitOpenFalse
    \/ \E ok \in BOOLEAN : StopFlushSendTextDone(ok)
    \/ CloseJoinDone
    \/ \E ok \in BOOLEAN : FinallyFlushSendTextDone(ok)
    \/ OaiSenderGet
    \/ SenderThreadGet
    \/ LoopCall
    \/ OaiReceiverGet
    \/ \E ok \in BOOLEAN : OaiReceiverSendTextDone(ok)

\* The model socket delivers at most MaxEvents messages
BoundedMessages == IF Len(socket_in) < MaxEvents THEN ModelMessages ELSE {}

Next ==
    \/ TelephonyNext
    \/ SocketNext
    \/ \E m \in BoundedMessages : OnMessage(m)
    \/ BridgeNext

Spec == Init /\ [][Next]_vars

\* ------------------------------------------------------------------------
\* One assistant turn: the model socket delivers session.created,
\* response.created, N audio deltas, response.audio.done, response.done and
\* nothing else; the telephony side sends start and may stop or disconnect
\* at any time.
\* ------------------------------------------------------------------------

MaxDeltas == 2

\* Decoded sizes of the deltas' audio: whole 16-bit samples, less than a
\* frame and more than two frames after resampling
TurnPayloads == {482, 1924}

IsDelta(m) == m.kind = "text" /\ m.type \in AudioDeltaTypes

NumDeltas(h) == Cardinality({i \in 1..Len(h) : IsDelta(h[i])})

\* The messages that may follow the history h of one turn
TurnMessages(h) ==
    IF Len(h) = 0 THEN {Event("session.created", <<>>)}
    ELSE IF Len(h) = 1 THEN {Event("response.created", <<>>)}
    ELSE IF h[Len(h)].type = "response.done" THEN {}
    ELSE IF h[Len(h)].type = "response.audio.done" THEN {Event("response.done", <<>>)}
    ELSE {Event("response.audio.done", <<>>)}
         \cup (IF NumDeltas(h) < MaxDeltas
               THEN {Event("response.audio.delta", <<n>>) : n \in TurnPayloads}
               ELSE {})

TurnNext ==
    \/ \E sid \in StreamSids : FirstStart(sid)
    \/ ReceiveStop
    \/ ReceiveDisconnect
    \/ SocketNext
    \/ \E m \in TurnMessages(socket_in) : OnMessage(m)
    \/ WaitOpenTrue
    \/ WaitOpenFalse
    \/ \E ok \in BOOLEAN : StopFlushSendTextDone(ok)
    \/ CloseJoinDone
    \/ \E ok \in BOOLEAN : FinallyFlushSendTextDone(ok)
    \/ SenderThreadGet
    \/ LoopCall
    \/ OaiReceiverGet
    \/ \E ok \in BOOLEAN : OaiReceiverSendTextDone(ok)

SpecTurn == Init /\ [][TurnNext]_vars

\* The history h is a whole turn: session.created, response.created, the
\* deltas, response.audio.done, response.done
IsWholeTurn(h) ==
    /\ Len(h) >= 4
    /\ h[1].type = "session.created"
    /\ h[2].type = "response.created"
    /\ \A i \in 3..(Len(h) - 2) : IsDelta(h[i])
    /\ h[Len(h) - 1].type = "response.audio.done"
    /\ h[Len(h)].type = "response.done"

\* C2: when _oai_receiver has processed exactly the sequence session.created,
\* response.created, N response.audio.delta with non-empty audio (whole
\* 16-bit samples), response.audio.done, response.done, then user_speaking,
\* response_in_progress and assistant_speaking are all false, and the sender
\* of the stream was handed exactly the N decoded chunks, in arrival order.
C2_TurnEndsIdleWithAllAudioHanded ==
    (IsWholeTurn(processed) /\ stream_sid # None) =>
        /\ ~conversation_state.user_speaking
        /\ ~conversation_state.response_in_progress
        /\ ~conversation_state.assistant_speaking
        /\ handed = [i \in 1..(Len(processed) - 4) |->
                        Chunk(i + 2, processed[i + 2].delta[1])]

\* C2 witness: a whole turn with two deltas has been processed while the
\* session was up, and frames of their audio went out
C2_Witness ==
    /\ IsWholeTurn(processed) /\ Len(processed) = 6
    /\ stream_sid # None
    /\ Len(handed) = 2
    /\ Len(twilio_out) >= 3
    /\ oai_recv_task = "get"

\* ------------------------------------------------------------------------
\* Properties of the bridge
\* ------------------------------------------------------------------------

\* The payloads of the send_json calls, in order
RECURSIVE Payloads(_)
Payloads(sj) == IF sj = <<>> THEN <<>> ELSE <<Head(sj)[2]>> \o Payloads(Tail(sj))

\* The sources of the audio of the append payloads of ps, in order
RECURSIVE AppendSources(_)
AppendSources(ps) ==
    IF ps = <<>> THEN <<>>
    ELSE (IF Head(ps) # Sentinel /\ Head(ps).type = "input_audio_buffer.append"
          THEN <<ChunkSource(Head(ps).audio)>> ELSE <<>>) \o AppendSources(Tail(ps))

\* The sources of the chunks waiting on pcm16_queue, in order
RECURSIVE QueueSources(_)
QueueSources(q) ==
    IF q = <<>> THEN <<>>
    ELSE (IF Head(q) # Sentinel THEN <<ChunkSource(Head(q).chunk8k)>> ELSE <<>>)
         \o QueueSources(Tail(q))

IsPrefix(a, b) == Len(a) <= Len(b) /\ a = SubSeq(b, 1, Len(a))

\* Bytes of padding (pad = TRUE) or of audio (pad = FALSE) in a byte string
RECURSIVE BytesOf(_, _)
BytesOf(b, pad) ==
    IF b = <<>> THEN 0
    ELSE (IF (Head(b)[1] = 0) = pad THEN Head(b)[2] ELSE 0) + BytesOf(Tail(b), pad)

\* The same, summed over the frames of media messages
RECURSIVE FrameBytesOf(_, _)
FrameBytesOf(out, pad) ==
    IF out = <<>> THEN 0
    ELSE BytesOf(Head(out).frame, pad) + FrameBytesOf(Tail(out), pad)

\* The sender's buffer, empty when there is no sender
SenderBuffer == IF twilio_sender = NoSender THEN <<>> ELSE twilio_sender.buffer

\* Bytes of padding, and of audio, buffered or handed to the telephony socket
PadTotal == BytesOf(SenderBuffer, TRUE) + FrameBytesOf(twilio_out, TRUE)

AudioTotal == BytesOf(SenderBuffer, FALSE) + FrameBytesOf(twilio_out, FALSE)

\* The finally block of audio_ws has been entered
TornDown == main_pc \in {"close_join", "finally_flush", "done"}

\* No step is possible but the next telephony message or disconnect
Quiescent ==
    ~ENABLED (SocketNext \/ (\E m \in BoundedMessages : OnMessage(m)) \/ BridgeNext)

\* C3 (as claimed): when input_audio_buffer.speech_started is processed
\* while assistant_speaking is true, a response.cancel is submitted with
\* send_json.
C3_CancelSubmittedOnSpeechStarted ==
    [][ ( /\ Len(processed') = Len(processed) + 1
          /\ processed'[Len(processed')].kind = "text"
          /\ processed'[Len(processed')].type = "input_audio_buffer.speech_started"
          /\ conversation_state.assistant_speaking )
        => \E i \in (Len(sent_json) + 1)..Len(sent_json') :
               sent_json'[i][2].type = "response.cancel" ]_vars

\* C4 (as claimed): when the stop event's teardown cancels the pump, every
\* media frame received has been submitted as one append, in arrival order.
C4_AllFramesSubmittedBeforeTeardown ==
    [][ ( /\ ReceiveStop \/ (\E ok \in BOOLEAN : StopFlushSendTextDone(ok))
          /\ oai_send_task = "get" /\ oai_send_task' = "cancelled" )
        => AppendSources(Payloads(sent_json')) = [i \in 1..frame_count |-> i] ]_vars

\* C4 (amended): every media frame with a payload is put on pcm16_queue in
\* arrival order, and the pump submits the frames it takes as one append
\* each, in arrival order: the appends submitted, followed by the frames
\* still queued, are the frames received; teardown leaves the queued ones
\* unforwarded.
C4_FramesSubmittedAreAPrefixInOrder ==
    /\ AppendSources(Payloads(sent_json)) \o QueueSources(pcm16_queue)
           = [i \in 1..frame_count |-> i]
    /\ \A i \in 1..Len(sent_json) :
           sent_json[i][2].type = "input_audio_buffer.append"
               => /\ sent_json[i][1] = "_oai_sender"
                  /\ BufLen(sent_json[i][2].audio) > 0

\* C4 witness: after teardown one frame has been submitted and another is
\* left on the queue before the stop signal
C4_Witness ==
    /\ main_pc = "done"
    /\ oai_send_task = "cancelled"
    /\ AppendSources(Payloads(sent_json)) = <<1>>
    /\ QueueSources(pcm16_queue) = <<2>>

\* C5: once wait_open has returned True, exactly one session.update and then
\* exactly one conversation.item.create have been submitted, before any
\* other message; nothing is submitted before; and what is written to the
\* socket starts with these two, in this order, before any append.
C5_SessionUpdateThenItemCreateFirst ==
    LET P == Payloads(sent_json)
    IN  /\ oai_send_task = None => P = <<>>
        /\ oai_send_task # None =>
               /\ Len(P) >= 2
               /\ P[1].type = "session.update"
               /\ P[2].type = "conversation.item.create"
               /\ \A i \in 3..Len(P) :
                      P[i].type \notin {"session.update", "conversation.item.create"}
        /\ Len(socket_out) >= 1 => socket_out[1].type = "session.update"
        /\ Len(socket_out) >= 2 => socket_out[2].type = "conversation.item.create"
        /\ \A i \in 3..Len(socket_out) : socket_out[i].type = "input_audio_buffer.append"

\* C5 witness: both messages and the appends of two media frames have been
\* written to the socket
C5_Witness ==
    /\ Len(socket_out) = 4
    /\ AppendSources(socket_out) = <<1, 2>>

\* C6 (as claimed): on stop or disconnect, the audio buffered in an open
\* sender is flushed with zero padding before teardown: a padded frame is
\* handed to the telephony socket and the pumps and the client are still
\* untouched.  The stop branch does so (src/app.py:526-534); the handler
\* of WebSocketDisconnect (src/app.py:536-537) goes to the finally block
\* without a flush
C6_PaddedFlushOnStopOrDisconnect ==
    [][ ( /\ ReceiveStop \/ ReceiveDisconnect
          /\ twilio_sender # NoSender
          /\ ~twilio_sender.closed
          /\ twilio_sender.buffer # <<>> )
        => /\ Len(twilio_out') = Len(twilio_out) + 1
           /\ AudioTotal' = AudioTotal
           /\ UNCHANGED <<oai_recv_task, oai_send_task, send_q, wsapp>> ]_vars

\* A synthetic error or closed event of the client is on the inbound queue
\* or has been taken off it
TransportFailureQueued ==
    \E i \in 1..Len(processed \o recv_q) : (processed \o recv_q)[i].from # "on_message"

\* C7 (as claimed): after a transport failure of the model socket the
\* session is torn down without a telephony stop or disconnect: when
\* nothing but a telephony message can happen, teardown has run.
C7_TornDownAfterTransportFailure ==
    (TransportFailureQueued /\ Quiescent) => TornDown

\* Chunks of audio waiting between the receive loop and the model socket
BufferedAudio ==
    Len(QueueSources(pcm16_queue)) + Len(AppendSources(send_q))

\* C8 (as claimed): the audio buffered in pcm16_queue and _send_q stays
\* under a fixed bound, here under the number of frames the telephony side
\* sends, at the latest when the pump and the sender thread have run as far
\* as they can.
C8_BufferedAudioBounded ==
    (oai_send_task = "get" /\ Quiescent) => BufferedAudio < MaxMedia

\* C9: the messages written to the model socket are the first of the
\* messages submitted with send_json, in submission order.
C9_WrittenInSubmissionOrder == IsPrefix(socket_out, Payloads(sent_json))

\* C9 witness: messages of both producers were written while a later one
\* was still queued
C9_Witness ==
    /\ Len(socket_out) = 3
    /\ socket_out[3].type = "input_audio_buffer.append"
    /\ AppendSources(send_q) = <<2>>

\* Messages handed over by on_message, among those in h
RECURSIVE FromSocket(_)
FromSocket(h) ==
    IF h = <<>> THEN <<>>
    ELSE (IF Head(h).from = "on_message" THEN <<Head(h)>> ELSE <<>>) \o FromSocket(Tail(h))

\* C10 (as claimed): every message the socket delivers is processed once
\* and in receipt order while the session is not torn down: the messages
\* processed and those still on their way are the messages delivered, in
\* order, and when nothing but a telephony message can happen, none is
\* left unprocessed.
C10_EveryMessageProcessedInOrder ==
    /\ FromSocket(processed \o recv_q \o loop_calls) = socket_in
    /\ (oai_recv_task # None /\ ~TornDown /\ Quiescent)
           => recv_q = <<>> /\ loop_calls = <<>>

\* ------------------------------------------------------------------------
\* Malformed and unrecognised input: the bridge with a credential, fed
\* telephony messages that are no JSON or carry a payload base64 rejects,
\* and model messages that are no JSON, carry audio that cannot be decoded
\* or is half a sample too long, or have an unknown type or none.
\* ------------------------------------------------------------------------

\* A text message of the model socket that json.loads rejects
NotJson == [kind |-> "not_json", type |-> "", delta |-> <<>>, nbytes |-> 0, from |-> "on_message"]

\* Payloads of media events: text that decodes to no bytes, or text base64
\* rejects
MalformedMediaPayloads == {-2, -1}

\* Event types _oai_receiver has a branch of its own for
RecognisedTypes ==
    { "session.created", "session.updated", "input_audio_buffer.speech_started",
      "input_audio_buffer.speech_stopped", "input_audio_buffer.committed",
      "response.created", "response.done", "response.output_item.added", "error" }
        \cup AudioDeltaTypes \cup AudioDoneTypes

\* Model messages of this specification: malformed ones, events of an
\* unknown type and of no type, and well-formed audio to follow them
MalformedMessages ==
    { NotJson,
      Event("response.audio.delta", <<-1>>),
      Event("response.audio.delta", <<3>>),
      Binary(3),
      Event("response.text.delta", <<>>),
      Event(None, <<>>),
      Event("response.audio.delta", <<1924>>) }

MalformedInit == Init /\ OPENAI_API_KEY

MalformedTelephonyNext ==
    \/ \E sid \in StreamSids : FirstStart(sid)
    \/ \E n \in MalformedMediaPayloads : ReceiveMedia(n)
    \/ ReceiveNotJson
    \/ ReceiveStop
    \/ ReceiveDisconnect

BoundedMalformedMessages == IF Len(socket_in) < MaxEvents THEN MalformedMessages ELSE {}

MalformedNext ==
    \/ MalformedTelephonyNext
    \/ SocketNext
    \/ \E m \in BoundedMalformedMessages : OnMessage(m)
    \/ BridgeNext

SpecMalformed == MalformedInit /\ [][MalformedNext]_vars

\* A model message with a malformed payload: text that is no JSON, a delta
\* that base64 rejects, audio that is not a whole number of samples
IsMalformed(m) ==
    \/ m.kind = "not_json"
    \/ m.kind = "bytes" /\ m.nbytes % 2 # 0
    \/ /\ m.kind = "text" /\ m.type \in AudioDeltaTypes /\ m.delta # <<>>
       /\ (m.delta[1] < 0 \/ m.delta[1] % 2 # 0)

\* C11 (as claimed): no malformed payload terminates the session.  A
\* telephony message that is no JSON and a media payload that cannot be
\* decoded are dropped and the receive loop waits for the next message; a
\* model message that is no JSON or carries undecodable or wrong-length
\* audio is dropped (no frame sent, nothing buffered) and the consumer
\* waits for the next message.
C11_MalformedPayloadsDropped ==
    /\ [][ ( \/ ReceiveNotJson
             \/ ReceiveMedia(-1) )
           => /\ main_pc' = "receive_text"
              /\ UNCHANGED <<pcm16_queue, oai_recv_task, oai_send_task, wsapp>> ]_vars
    /\ [][ ( /\ oai_recv_task = "get" /\ recv_q # <<>>
             /\ IsMalformed(Head(recv_q))
             /\ processed' = Append(processed, Head(recv_q)) )
           => /\ oai_recv_task' = "get"
              /\ UNCHANGED <<twilio_sender, twilio_out>> ]_vars

\* C12 (as claimed): a decoded event whose type is not a recognised one,
\* or that has no type at all, passes through: no flag changes, no audio
\* is emitted or buffered, nothing is raised, and the consumer waits for
\* the next event.
C12_UnrecognisedEventPassesThrough ==
    [][ ( /\ oai_recv_task = "get" /\ recv_q # <<>>
          /\ Head(recv_q).kind = "text"
          /\ Head(recv_q).type \notin RecognisedTypes
          /\ processed' = Append(processed, Head(recv_q)) )
        => /\ oai_recv_task' = "get"
           /\ UNCHANGED <<twilio_sender, twilio_out, conversation_state, speaking,
                          frames, handed>> ]_vars

\* ------------------------------------------------------------------------
\* The sender on its own (SpecPacker): flush, send_pcm24, send failures and
\* mark_closed
\* ------------------------------------------------------------------------

\* The lone caller is about to call a method of an open sender whose buffer
\* holds an incomplete frame
OpenWithRemainder ==
    /\ caller = "idle"
    /\ ~twilio_sender.closed
    /\ BufLen(twilio_sender.buffer) > 0
    /\ BufLen(twilio_sender.buffer) < frame_bytes

\* C13: flush(pad=True) on an open sender whose buffer holds r bytes,
\* 0 < r < 320, hands exactly one frame to the telephony socket, made of
\* the r buffered bytes and 320 - r zero bytes; flush(pad=False) sends
\* nothing and discards the remainder; and whenever a flush returns, the
\* buffer is empty.
C13_FlushPadsOrDiscardsRemainder ==
    /\ [][ (OpenWithRemainder /\ CallFlush(TRUE))
           => /\ Len(twilio_out') = Len(twilio_out) + 1
              /\ LET f == twilio_out'[Len(twilio_out')].frame
                 IN  /\ BufLen(f) = frame_bytes
                     /\ TakeBytes(f, BufLen(twilio_sender.buffer)) = twilio_sender.buffer
                     /\ BytesOf(f, TRUE) = frame_bytes - BufLen(twilio_sender.buffer)
              /\ twilio_sender'.buffer = <<>>
              /\ caller' = "flush" ]_vars
    /\ [][ (OpenWithRemainder /\ CallFlush(FALSE))
           => /\ twilio_out' = twilio_out
              /\ twilio_sender'.buffer = <<>>
              /\ caller' = "idle" ]_vars
    /\ [][ ( \/ caller = "flush" /\ caller' = "idle"
             \/ caller = "idle" /\ caller' = "idle" /\ (\E pad \in BOOLEAN : CallFlush(pad)) )
           => twilio_sender'.buffer = <<>> ]_vars
    /\ [][ (caller = "flush" /\ caller' = "idle") => twilio_out' = twilio_out ]_vars

\* C13 witness: a flush(pad=True) has returned after the send of its one
\* zero-padded frame, and the open sender's buffer is empty
C13_Witness ==
    /\ caller = "idle"
    /\ ~twilio_sender.closed
    /\ twilio_sender.buffer = <<>>
    /\ Len(twilio_out) >= 1
    /\ BytesOf(twilio_out[Len(twilio_out)].frame, TRUE) > 0
    /\ BytesOf(twilio_out[Len(twilio_out)].frame, FALSE) > 0

\* The bytes of 8 kHz audio audioop.ratecv returns for the fragments h
\* passed to send_pcm24 one after the other, the state carried along; a
\* fragment that raises yields nothing and leaves the state
RECURSIVE ResampledTotal(_, _)
ResampledTotal(h, state) ==
    IF h = <<>> THEN 0
    ELSE LET r == Ratecv(BufLen(Head(h)), 24000, 8000, state)
         IN  r.n + ResampledTotal(Tail(h), r.state)

\* C14: as long as every call was a send_pcm24 and the sender is open (no
\* send failed, mark_closed was not called), the frames sent and the bytes
\* buffered are the T bytes resampled so far, no frame is padded, and when
\* the last call has returned, T \div 320 media messages have been sent
\* and T % 320 bytes remain in the buffer.
C14_OneMessagePerCompleteFrame ==
    (calls = Len(handed) /\ ~twilio_sender.closed)
        => LET T == ResampledTotal(handed, <<>>)
           IN  /\ PadTotal = 0
               /\ frame_bytes * Len(twilio_out) + BufLen(twilio_sender.buffer) = T
               /\ caller = "idle"
                      => /\ Len(twilio_out) = T \div frame_bytes
                         /\ BufLen(twilio_sender.buffer) = T % frame_bytes

\* C14 witness: three send_pcm24 calls have returned, more than one frame
\* was sent and a remainder is buffered
C14_Witness ==
    /\ calls = Len(handed) /\ calls >= 3
    /\ ~twilio_sender.closed
    /\ caller = "idle"
    /\ Len(twilio_out) >= 2
    /\ BufLen(twilio_sender.buffer) > 0

\* ------------------------------------------------------------------------
\* The bridge (Spec): a failed write to the telephony socket
\* ------------------------------------------------------------------------

\* There is a sender and it is closed
SenderClosed == twilio_sender # NoSender /\ twilio_sender.closed

\* C15: when ws.send_text raises for a frame, the sender becomes closed;
\* a closed sender stays closed and hands no further frame to the
\* telephony socket; the failure is not propagated: the consumer whose
\* send failed waits for its next event, and the step changes nothing of
\* the receive loop, the pump, the queues towards the model or the client.
C15_SendFailureClosesSenderOnly ==
    /\ [][ SenderClosed => (SenderClosed' /\ twilio_out' = twilio_out) ]_vars
    /\ [][ OaiReceiverSendTextDone(FALSE)
           => /\ SenderClosed'
              /\ oai_recv_task' = "get"
              /\ UNCHANGED <<main_vars, client_vars, pump_vars, processed>> ]_vars
    /\ [][ StopFlushSendTextDone(FALSE) \/ FinallyFlushSendTextDone(FALSE)
           => /\ SenderClosed'
              /\ TornDown' ]_vars

\* C15 witness: after a failed write closed the sender, the consumer has
\* processed a later event and the pump has submitted a later frame, the
\* session still being up
C15_Witness ==
    /\ SenderClosed
    /\ main_pc = "receive_text"
    /\ oai_recv_task = "get"
    /\ Len(twilio_out) = 1
    /\ Len(processed) = 2
    /\ processed[1].type = "response.audio.delta"
    /\ Len(AppendSources(Payloads(sent_json))) >= 1

\* mark_closed has left the sender closed with an empty buffer
MarkedClosed == twilio_sender.closed /\ twilio_sender.buffer = <<>>

\* C16: mark_closed leaves the sender closed with an empty buffer, and
\* calling it again changes nothing; from then on no call of send_pcm24,
\* flush(pad=True), flush(pad=False) or mark_closed sends a frame, suspends
\* or raises, and each leaves the sender closed with an empty buffer.
C16_MarkClosedIdempotentThenNoOps ==
    /\ [][ CallMarkClosed
           => /\ MarkedClosed'
              /\ MarkClosed(twilio_sender') = twilio_sender'
              /\ twilio_out' = twilio_out ]_vars
    /\ [][ (MarkedClosed /\ caller = "idle")
           => /\ twilio_sender' = twilio_sender
              /\ twilio_out' = twilio_out
              /\ caller' = "idle" ]_vars

\* C16 witness: mark_closed was called on a fresh sender, and a later
\* send_pcm24 of 960 bytes left the converter state, the buffer and the
\* output untouched
C16_Witness ==
    /\ MarkedClosed
    /\ caller = "idle"
    /\ calls = MaxCalls
    /\ twilio_sender.rate_state = <<>>
    /\ twilio_out = <<>>
    /\ \E i \in 1..Len(handed) : BufLen(handed[i]) = 960

\* ------------------------------------------------------------------------
\* The client on its own: one caller makes any sequence of calls of start
\* (once at most), send_json and close, while the socket thread, the sender
\* thread and the event loop run.
\* ------------------------------------------------------------------------

MaxClientCalls == 5

ClientInit ==
    /\ BridgeInit
    /\ ENABLE_LOCAL_PLAYBACK = FALSE
    /\ OPENAI_API_KEY = TRUE
    /\ twilio_sender = NoSender

\* OAIClient.start(): the WebSocketApp is created and its thread started
CallStart ==
    /\ Len(log) < MaxClientCalls /\ wsapp = None
    /\ wsapp' = "connecting"
    /\ log' = Append(log, "start")
    /\ UNCHANGED <<config_vars, main_vars, packer_vars, oai_client, opened, send_q,
                   sender_thread, socket_out, socket_in, loop_calls, recv_q,
                   sent_json, receiver_vars, pump_vars, caller, calls,
                   restart_vars, codec_vars, registry_vars>>

\* OAIClient.send_json(payload), the payload marked with the call's number
CallSendJson ==
    /\ Len(log) < MaxClientCalls
    /\ LET payload == Payload("input_audio_buffer.append", Chunk(Len(log) + 1, 2))
       IN  /\ send_q' = SendJson(send_q, payload)
           /\ sent_json' = Append(sent_json, <<"caller", payload>>)
    /\ log' = Append(log, "send_json")
    /\ UNCHANGED <<config_vars, main_vars, packer_vars, oai_client, opened, wsapp,
                   sender_thread, socket_out, socket_in, loop_calls, recv_q,
                   receiver_vars, pump_vars, caller, calls,
                   restart_vars, codec_vars, registry_vars>>

\* OAIClient.close()
CallClose ==
    /\ Len(log) < MaxClientCalls
    /\ send_q' = Close(send_q, wsapp).send_q
    /\ wsapp' = Close(send_q, wsapp).wsapp
    /\ log' = Append(log, "close")
    /\ UNCHANGED <<config_vars, main_vars, packer_vars, oai_client, opened,
                   sender_thread, socket_out, socket_in, loop_calls, recv_q,
                   sent_json, receiver_vars, pump_vars, caller, calls,
                   restart_vars, codec_vars, registry_vars>>

ClientNext ==
    \/ CallStart
    \/ CallSendJson
    \/ CallClose
    \/ OnOpen
    \/ OnError
    \/ OnClose
    \/ SenderThreadGet
    \/ LoopCall

SpecClient == ClientInit /\ [][ClientNext]_vars

\* The number of send_json calls in l before its first close (all of them
\* when there is no close)
RECURSIVE SubmittedBeforeClose(_)
SubmittedBeforeClose(l) ==
    IF l = <<>> \/ Head(l) = "close" THEN 0
    ELSE (IF Head(l) = "send_json" THEN 1 ELSE 0) + SubmittedBeforeClose(Tail(l))

\* close has been called
CloseCalled == \E i \in 1..Len(log) : log[i] = "close"

\* C17: close can be called at any point and any number of times: before
\* start, while connecting, when open, after an error or a close of the
\* socket.  It puts the stop signal on the queue and stops the socket if
\* there is one; with no socket, or a socket already stopped, it leaves the
\* socket as it is, and it never touches the sender thread, what was
\* written or what was received.  No message submitted after a close is
\* ever written to the socket: what is written is a prefix of the messages
\* submitted before the first close.
C17_CloseIdempotentAndStopsDelivery ==
    /\ [][ CallClose
           => /\ wsapp' \in {None, "closing", "closed"}
              /\ wsapp = None => wsapp' = None
              /\ wsapp \in {None, "closing", "closed"} => wsapp' = wsapp
              /\ UNCHANGED <<sender_thread, socket_out, opened, recv_q, loop_calls>> ]_vars
    /\ [](/\ IsPrefix(socket_out, Payloads(sent_json))
          /\ Len(socket_out) <= SubmittedBeforeClose(log))

\* C17 witness: a message was written, close was called twice with a
\* send_json in between, and that message is left on the queue, the sender
\* thread having ended
C17_Witness ==
    /\ log = <<"start", "send_json", "close", "send_json", "close">>
    /\ Len(socket_out) = 1
    /\ sender_thread = "exited"
    /\ wsapp = "closed"
    /\ Len(AppendSources(send_q)) = 1

\* ------------------------------------------------------------------------
\* The start of a stream that fails: the socket does not open in time, or
\* the credential is missing
\* ------------------------------------------------------------------------

\* wait_open returned False: the client exists, the receive loop has ended
\* and no task was ever created
OpenTimedOut ==
    /\ oai_client # None
    /\ TornDown
    /\ oai_recv_task = None

\* C18: wait_open returns True only when the socket has reported open and
\* False only when it has not.  When it returns False, the step submits
\* nothing, creates no task and no sender, and closes the client (the stop
\* signal is on the queue and the socket is told to close, unless it has
\* closed by itself) and, once the wait for the socket thread is over, ends
\* the handler; from then on
\* nothing is ever submitted or written for the stream, no task exists, and
\* media received before the start stays unconverted.
C18_WaitOpenFalseSubmitsNothing ==
    /\ [][ WaitOpenTrue => opened ]_vars
    /\ [][ WaitOpenFalse
           => /\ ~opened
              /\ UNCHANGED <<sent_json, socket_out, oai_recv_task, oai_send_task, twilio_sender>>
              /\ send_q' = Append(send_q, Sentinel)
              /\ wsapp' \in {"closing", "closed"}
              /\ main_pc' \in {"close_join", "done"} ]_vars
    /\ [][ (OpenTimedOut /\ CloseJoinDone) => main_pc' = "done" ]_vars
    /\ [](OpenTimedOut
           => /\ sent_json = <<>> /\ socket_out = <<>>
              /\ send_q = <<Sentinel>>
              /\ oai_recv_task = None /\ oai_send_task = None
              /\ twilio_sender = NoSender /\ twilio_out = <<>>
              /\ wsapp \in {"closing", "closed"}
              /\ main_pc \in {"close_join", "done"}
              /\ processed = <<>>)

\* C18 witness: wait_open returned False with two media frames received
\* before the start; they are still on pcm16_queue behind the stop signal's
\* place, and the socket, opened too late, has closed
C18_Witness ==
    /\ OpenTimedOut
    /\ main_pc = "done"
    /\ stream_sid = "MZ1"
    /\ frame_count = MaxMedia
    /\ Len(pcm16_queue) = MaxMedia + 1
    /\ wsapp = "closed"
    /\ sent_json = <<>>

\* The start event arrived without the credential
FailedWithoutCredential == ~OPENAI_API_KEY /\ stream_sid # None

\* C19: without the credential, the start event creates no client and no
\* socket, submits nothing, creates no task and no sender, and ends the
\* receive loop through the finally block (the pump's stop signal is put on
\* pcm16_queue); afterwards no step changes any of this, so the session
\* never becomes usable.
C19_MissingCredentialFailsAtStart ==
    /\ [][ (~OPENAI_API_KEY /\ \E sid \in StreamSids : ReceiveStart(sid))
           => /\ main_pc' = "done"
              /\ pcm16_queue' = Append(pcm16_queue, Sentinel)
              /\ UNCHANGED <<oai_client, wsapp, send_q, sent_json, oai_recv_task,
                             oai_send_task, twilio_sender>> ]_vars
    /\ [](~OPENAI_API_KEY
           => /\ oai_client = None /\ wsapp = None /\ ~opened
              /\ sender_thread = None
              /\ send_q = <<>> /\ sent_json = <<>> /\ socket_out = <<>>
              /\ oai_recv_task = None /\ oai_send_task = None
              /\ twilio_sender = NoSender /\ twilio_out = <<>>
              /\ ~conversation_state.session_ready)
    /\ [](FailedWithoutCredential => main_pc = "done")

\* C19 witness: the start event arrived without the credential after a
\* media frame; the loop has ended and the frame is on pcm16_queue with
\* the stop signal behind it
C19_Witness ==
    /\ FailedWithoutCredential
    /\ main_pc = "done"
    /\ frame_count = 1
    /\ Len(pcm16_queue) = 2
    /\ pcm16_queue[2] = Sentinel

\* ------------------------------------------------------------------------
\* Synthetic events of the client
\* ------------------------------------------------------------------------

\* Everything the callbacks handed over, in the order of the hand-over:
\* processed, waiting on recv_q, or waiting in the event loop
HandedOver == processed \o recv_q \o loop_calls

\* The synthetic events among those in h
RECURSIVE FromCallbacks(_)
FromCallbacks(h) ==
    IF h = <<>> THEN <<>>
    ELSE (IF Head(h).from # "on_message" THEN <<Head(h)>> ELSE <<>>) \o FromCallbacks(Tail(h))

\* C20: on_error hands over exactly one event of type error and on_close
\* exactly one of type closed, each placed after everything handed over
\* before; no other step adds, removes or moves a synthetic event, and the
\* order of hand-over is kept through the event loop and recv_q.  The
\* consumer that takes a synthetic event off recv_q raises nothing: it
\* goes back to recv_q.get() without sending, submitting or changing a flag.
C20_OneSyntheticEventPerCallback ==
    /\ [][ OnError => HandedOver' = Append(HandedOver, Synthetic("error", "on_error")) ]_vars
    /\ [][ OnClose => HandedOver' = Append(HandedOver, Synthetic("closed", "on_close")) ]_vars
    /\ [][ ~(OnError \/ OnClose)
           => FromCallbacks(HandedOver') = FromCallbacks(HandedOver) ]_vars
    /\ [][ \/ HandedOver' = HandedOver
           \/ \E m \in DOMAIN HandedOver' :
                  /\ m = Len(HandedOver')
                  /\ HandedOver = SubSeq(HandedOver', 1, m - 1) ]_vars
    /\ [][ (OaiReceiverGet /\ Head(recv_q).from # "on_message")
           => /\ oai_recv_task' = "get"
              /\ UNCHANGED <<twilio_sender, twilio_out, send_q, sent_json,
                             conversation_state, speaking, frames, handed>> ]_vars

\* C20 witness: a message, then the error event, then the closed event
\* have been processed in that order and the consumer is waiting
C20_Witness ==
    /\ Len(processed) = 3
    /\ processed[1].from = "on_message"
    /\ processed[2] = Synthetic("error", "on_error")
    /\ processed[3] = Synthetic("closed", "on_close")
    /\ oai_recv_task = "get"
    /\ recv_q = <<>> /\ loop_calls = <<>>

\* ------------------------------------------------------------------------
\* More than one start event on a connection.  The start branch runs again:
\* a new client is created and started while oai_recv_task, oai_send_task
\* and the tasks themselves still belong to the client before; when
\* wait_open returns True the variables are rebound to new tasks.  The
\* model socket delivers no message here, only its callbacks.
\* ------------------------------------------------------------------------

\* on_open of the new client (its sender thread finds nothing on _send_q
\* before wait_open returns)
PendingOnOpen ==
    /\ pending # NoClient /\ pending.wsapp = "connecting"
    /\ pending' = [pending EXCEPT !.wsapp = "open", !.opened = TRUE,
                                  !.sender_thread = "running"]
    /\ UNCHANGED <<config_vars, main_vars, packer_vars, client_vars, receiver_vars,
                   pump_vars, unit_vars, superseded, codec_vars, registry_vars>>

\* on_error of the new client
PendingOnError ==
    /\ pending # NoClient /\ pending.wsapp \in {"connecting", "open"}
    /\ pending' = [pending EXCEPT !.wsapp = "errored",
                                  !.loop_calls = Append(@, Synthetic("error", "on_error"))]
    /\ UNCHANGED <<config_vars, main_vars, packer_vars, client_vars, receiver_vars,
                   pump_vars, unit_vars, superseded, codec_vars, registry_vars>>

\* on_close of the new client
PendingOnClose ==
    /\ pending # NoClient /\ pending.wsapp \in {"open", "errored", "closing"}
    /\ pending' = [pending EXCEPT !.wsapp = "closed",
                                  !.loop_calls = Append(@, Synthetic("closed", "on_close"))]
    /\ UNCHANGED <<config_vars, main_vars, packer_vars, client_vars, receiver_vars,
                   pump_vars, unit_vars, superseded, codec_vars, registry_vars>>

\* The event loop runs recv_q.put_nowait(message) of the new client
PendingLoopCall ==
    /\ LoopRuns
    /\ pending # NoClient /\ pending.loop_calls # <<>>
    /\ LET t == LoopTakes(pending.loop_calls)
       IN  pending' = [pending EXCEPT !.loop_calls = t.rest,
                                      !.recv_q = Append(@, t.msg)]
    /\ UNCHANGED <<config_vars, main_vars, packer_vars, client_vars, receiver_vars,
                   pump_vars, unit_vars, superseded, codec_vars, registry_vars>>

\* The sender the _oai_receiver task of superseded[i] was created with:
\* none, the object the variable twilio_sender still names (sender_at = 0),
\* or an object the variable named before, kept in superseded[sender_at]
SupersededSender(i) ==
    LET at == superseded[i].sender_at
    IN  IF at = -1 THEN NoSender
        ELSE IF at = 0 THEN twilio_sender
        ELSE superseded[at].twilio_sender

\* wait_open of the new client returns True: the two messages are submitted
\* to it, the sender is replaced if the start event had a streamSid, and
\* oai_recv_task and oai_send_task are rebound to new tasks.  The client and
\* the tasks before are left as they are and run on, the _oai_receiver
\* with the sender it was created with.
WaitOpenAgainTrue ==
    /\ main_pc = "wait_open_again" /\ pending.opened
    /\ LET k        == Len(superseded) + 1
           replaced == stream_sid # None /\ twilio_sender # NoSender
           at(j)    == IF replaced /\ j = 0 THEN k ELSE j
       IN  superseded' = Append(
               [i \in DOMAIN superseded |->
                    [superseded[i] EXCEPT !.sender_at = at(@)]],
               [wsapp |-> wsapp, send_q |-> send_q, sender_thread |-> sender_thread,
                socket_out |-> socket_out, socket_in |-> socket_in,
                loop_calls |-> loop_calls, recv_q |-> recv_q,
                oai_recv_task |-> oai_recv_task, oai_send_task |-> oai_send_task,
                rate_state |-> rate_state,
                conversation_state |-> conversation_state, frames |-> frames,
                processed |-> processed,
                sender_at |-> IF twilio_sender = NoSender THEN -1 ELSE at(0),
                twilio_sender |-> IF replaced THEN twilio_sender ELSE NoSender])
    /\ opened' = pending.opened
    /\ wsapp' = pending.wsapp
    /\ sender_thread' = pending.sender_thread
    /\ socket_out' = pending.socket_out
    /\ socket_in' = <<>>
    /\ loop_calls' = pending.loop_calls
    /\ recv_q' = pending.recv_q
    /\ send_q' = SendJson(SendJson(pending.send_q, Payload("session.update", <<>>)),
                          Payload("conversation.item.create", <<>>))
    /\ sent_json' = << <<"audio_ws", Payload("session.update", <<>>)>>,
                       <<"audio_ws", Payload("conversation.item.create", <<>>)>> >>
    /\ twilio_sender' = IF stream_sid # None
                        THEN NewTwilioMediaStreamSender(stream_sid)
                        ELSE twilio_sender
    /\ oai_recv_task' = "get"
    /\ oai_send_task' = "get"
    /\ rate_state' = <<>>
    /\ conversation_state' = [user_speaking |-> FALSE, assistant_speaking |-> FALSE,
                              response_in_progress |-> FALSE, session_ready |-> FALSE]
    /\ frames' = 0
    /\ processed' = <<>>
    /\ pending' = NoClient
    /\ main_pc' = "receive_text"
    /\ UNCHANGED <<config_vars, stream_sid, frame_count, pcm16_queue, twilio_out,
                   oai_client, speaking, handed, unit_vars, codec_vars, registry_vars>>

\* wait_open of the new client returns False: the handler raises, and the
\* finally block cancels the tasks the variables still name (those of the
\* client before) and closes the client oai_client names (the new one),
\* waiting in _thread.join while the thread of its socket is alive
WaitOpenAgainFalse ==
    /\ main_pc = "wait_open_again" /\ ~pending.opened
    /\ pcm16_queue' = Append(pcm16_queue, Sentinel)
    /\ oai_recv_task' = Cancel(oai_recv_task)
    /\ oai_send_task' = Cancel(oai_send_task)
    /\ pending' = [pending EXCEPT
                       !.send_q = Close(pending.send_q, pending.wsapp).send_q,
                       !.wsapp = Close(pending.send_q, pending.wsapp).wsapp]
    /\ IF CloseJoins(pending.wsapp)
       THEN /\ main_pc' = "close_join"
            /\ UNCHANGED <<twilio_sender, twilio_out>>
       ELSE FinallyFlush(twilio_sender, twilio_out)
    /\ UNCHANGED <<config_vars, stream_sid, frame_count, client_vars,
                   conversation_state, speaking, frames, processed, handed,
                   rate_state, unit_vars, superseded, codec_vars, registry_vars>>

\* The _oai_sender task of a client before takes the next item of the
\* pcm16_queue it shares with the current task, and submits the audio to
\* its own client
SupersededSenderGet(i) ==
    /\ LoopRuns
    /\ superseded[i].oai_send_task = "get" /\ pcm16_queue # <<>>
    /\ pcm16_queue' = QueueGet(pcm16_queue).rest
    /\ IF QueueGet(pcm16_queue).item = Sentinel
       THEN superseded' = [superseded EXCEPT ![i].oai_send_task = "done"]
       ELSE LET chunk8k == QueueGet(pcm16_queue).item.chunk8k
                r == Ratecv(BufLen(chunk8k), 8000, 24000, superseded[i].rate_state)
                payload == Payload("input_audio_buffer.append",
                                   Chunk(ChunkSource(chunk8k), r.n))
            IN  superseded' = [superseded EXCEPT
                                   ![i].rate_state = r.state,
                                   ![i].send_q = SendJson(@, payload)]
    /\ UNCHANGED <<config_vars, main_pc, stream_sid, frame_count, packer_vars,
                   client_vars, receiver_vars, pump_vars, unit_vars, pending, codec_vars, registry_vars>>

\* The sender thread of a client before
SupersededSenderThreadGet(i) ==
    /\ superseded[i].sender_thread = "running" /\ superseded[i].send_q # <<>>
    /\ LET c == superseded[i]
           t == SenderTakes(c.send_q)
           written == t.msg # Sentinel /\ c.wsapp = "open"
       IN  superseded' = [superseded EXCEPT
                              ![i].send_q = t.rest,
                              ![i].socket_out = IF written THEN Append(@, t.msg) ELSE @,
                              ![i].sender_thread = IF written THEN @ ELSE "exited"]
    /\ UNCHANGED <<config_vars, main_vars, packer_vars, client_vars, receiver_vars,
                   pump_vars, unit_vars, pending, codec_vars, registry_vars>>

\* on_close of a client before: its peer closes the socket
SupersededOnClose(i) ==
    /\ superseded[i].wsapp \in {"open", "errored", "closing"}
    /\ superseded' = [superseded EXCEPT
                          ![i].wsapp = "closed",
                          ![i].loop_calls = Append(@, Synthetic("closed", "on_close"))]
    /\ UNCHANGED <<config_vars, main_vars, packer_vars, client_vars, receiver_vars,
                   pump_vars, unit_vars, pending, codec_vars, registry_vars>>

\* The event loop runs recv_q.put_nowait(message) of a client before
SupersededLoopCall(i) ==
    /\ LoopRuns
    /\ superseded[i].loop_calls # <<>>
    /\ LET t == LoopTakes(superseded[i].loop_calls)
       IN  superseded' = [superseded EXCEPT ![i].loop_calls = t.rest,
                                            ![i].recv_q = Append(@, t.msg)]
    /\ UNCHANGED <<config_vars, main_vars, packer_vars, client_vars, receiver_vars,
                   pump_vars, unit_vars, pending, codec_vars, registry_vars>>

\* The sender of superseded[i] becomes ts
SupersededSenderSet(sup, i, ts) ==
    LET at == superseded[i].sender_at
    IN  /\ twilio_sender' = IF at = 0 THEN ts ELSE twilio_sender
        /\ superseded' = IF at > 0 THEN [sup EXCEPT ![at].twilio_sender = ts] ELSE sup

\* The _oai_receiver task of a client before takes the next message off
\* the recv_q of its client and handles it as every _oai_receiver does:
\* with its own conversation_state, the sender it was created with, the
\* telephony socket and the speaking event of the connection
SupersededReceiverGet(i) ==
    /\ LoopRuns
    /\ superseded[i].oai_recv_task = "get" /\ superseded[i].recv_q # <<>>
    /\ LET c   == superseded[i]
           msg == QueueGet(c.recv_q).item
           r   == ReceiverStep(msg, Len(c.processed) + 1, SupersededSender(i),
                               c.conversation_state, speaking)
       IN  /\ SupersededSenderSet(
                  [superseded EXCEPT
                       ![i].recv_q = QueueGet(c.recv_q).rest,
                       ![i].processed = Append(@, msg),
                       ![i].frames = @ + r.frames,
                       ![i].conversation_state = r.cs,
                       ![i].send_q = @ \o r.submitted,
                       ![i].oai_recv_task = r.task],
                  i, r.sender)
           /\ twilio_out' = twilio_out \o r.sent
           /\ handed' = handed \o r.handed
           /\ speaking' = r.speaking
    /\ UNCHANGED <<config_vars, main_vars, client_vars, oai_recv_task,
                   conversation_state, frames, processed, pump_vars, unit_vars,
                   pending, codec_vars, registry_vars>>

\* ws.send_text returns or raises in the _oai_receiver task of a client
\* before
SupersededReceiverSendTextDone(i, ok) ==
    /\ LoopRuns
    /\ InSendText(superseded[i].oai_recv_task)
    /\ LET c == superseded[i]
           r == ReceiverResume(c.oai_recv_task, SupersededSender(i),
                               c.conversation_state, speaking, ok)
       IN  /\ SupersededSenderSet(
                  [superseded EXCEPT
                       ![i].frames = @ + r.frames,
                       ![i].conversation_state = r.cs,
                       ![i].oai_recv_task = r.task],
                  i, r.sender)
           /\ twilio_out' = twilio_out \o r.sent
           /\ speaking' = r.speaking
    /\ UNCHANGED <<config_vars, main_vars, client_vars, oai_recv_task,
                   conversation_state, frames, processed, handed, pump_vars,
                   unit_vars, pending, codec_vars, registry_vars>>

RestartInit == Init /\ OPENAI_API_KEY /\ ~ENABLE_LOCAL_PLAYBACK

RestartNext ==
    \/ \E sid \in StreamSids : ReceiveStart(sid)
    \/ \E n \in MediaPayloads : ReceiveMedia(n)
    \/ ReceiveStop
    \/ ReceiveDisconnect
    \/ SocketNext
    \/ WaitOpenTrue
    \/ WaitOpenFalse
    \/ WaitOpenAgainTrue
    \/ WaitOpenAgainFalse
    \/ CloseJoinDone
    \/ PendingOnOpen
    \/ PendingOnError
    \/ PendingOnClose
    \/ PendingLoopCall
    \/ \E i \in DOMAIN superseded : SupersededLoopCall(i)
    \/ \E i \in DOMAIN superseded : SupersededSenderGet(i)
    \/ \E i \in DOMAIN superseded : SupersededSenderThreadGet(i)
    \/ \E i \in DOMAIN superseded : SupersededOnClose(i)
    \/ \E i \in DOMAIN superseded : SupersededReceiverGet(i)
    \/ OaiSenderGet
    \/ SenderThreadGet
    \/ LoopCall
    \/ OaiReceiverGet

SpecRestart == RestartInit /\ [][RestartNext]_vars

\* A socket that exists, on which close() was not called and which has not
\* closed
Unclosed(w) == w \in {"connecting", "open", "errored"}

\* A task that has not ended
Alive(t) == t \notin {None, "done", "failed", "cancelled"}

\* Clients of the connection that were started and are not closed
LiveClients ==
    (IF oai_client # None /\ Unclosed(wsapp) THEN 1 ELSE 0)
    + (IF pending # NoClient /\ Unclosed(pending.wsapp) THEN 1 ELSE 0)
    + Cardinality({i \in DOMAIN superseded : Unclosed(superseded[i].wsapp)})

\* _oai_sender tasks, and _oai_receiver tasks, of the connection that run
LivePumps ==
    (IF Alive(oai_send_task) THEN 1 ELSE 0)
    + Cardinality({i \in DOMAIN superseded : Alive(superseded[i].oai_send_task)})

LiveConsumers ==
    (IF Alive(oai_recv_task) THEN 1 ELSE 0)
    + Cardinality({i \in DOMAIN superseded : Alive(superseded[i].oai_recv_task)})

\* C21 (as claimed): at any time at most one client that is not closed and
\* at most one pump and one consumer exist on a connection, and when the
\* finally block is over no client is left unclosed and no task running,
\* also when more than one start event arrives.
C21_OneClientAndOnePumpPair ==
    /\ LiveClients <= 1
    /\ LivePumps <= 1 /\ LiveConsumers <= 1
    /\ main_pc = "done" => LiveClients = 0 /\ LivePumps = 0 /\ LiveConsumers = 0

\* ------------------------------------------------------------------------
\* Two tasks and one sender: the receive loop (flush on stop, flush in the
\* finally block) and the consumer (send_pcm24, flush on response.audio.done)
\* ------------------------------------------------------------------------

\* audio_ws is suspended in ws.send_text inside a flush of the sender
ReceiveLoopInSender == main_pc \in {"stop_flush", "finally_flush"}

\* _oai_receiver is suspended in ws.send_text inside send_pcm24 or flush
ConsumerInSender == oai_recv_task \in {"send_pcm24_bytes", "send_pcm24_delta", "flush"}

\* C22 (as claimed): the sender's buffer is used by one task at a time: in
\* no reachable state are the receive loop and the consumer both inside an
\* operation of the sender.
C22_SenderUsedByOneTaskAtATime == ~(ReceiveLoopInSender /\ ConsumerInSender)

\* The bytes of the frames of media messages, one after the other
RECURSIVE FramesOf(_)
FramesOf(out) == IF out = <<>> THEN <<>> ELSE Head(out).frame \o FramesOf(Tail(out))

\* The sources of the audio in a byte string, run by run, padding left out
RECURSIVE AudioSources(_)
AudioSources(b) ==
    IF b = <<>> THEN <<>>
    ELSE (IF Head(b)[1] # 0 THEN <<Head(b)[1]>> ELSE <<>>) \o AudioSources(Tail(b))

NonDecreasing(s) == \A i \in 1..(Len(s) - 1) : s[i] <= s[i + 1]

\* C23: the frames handed to the telephony socket carry the audio in the
\* order it was appended to the buffer: through the frames in the order
\* they were handed over, and then the buffer, audio of an earlier
\* send_pcm24 call never comes after audio of a later one, whichever task
\* cuts the frames, and wherever the flush of stop adds its padding.
C23_FramesInAppendOrder ==
    NonDecreasing(AudioSources(FramesOf(twilio_out) \o SenderBuffer))

\* C23 witness: the flush of stop and the consumer's send_pcm24 are both
\* suspended in a write; a frame with padding went out between audio of two
\* send_pcm24 calls
C23_Witness ==
    /\ main_pc = "stop_flush" /\ ConsumerInSender
    /\ \E i, j, k \in 1..Len(twilio_out) :
           /\ i <= j /\ j < k
           /\ AudioSources(twilio_out[i].frame) # <<>>
           /\ BytesOf(twilio_out[j].frame, TRUE) > 0
           /\ AudioSources(twilio_out[k].frame) # <<>>
           /\ AudioSources(twilio_out[i].frame)[1] < AudioSources(twilio_out[k].frame)[1]

\* ------------------------------------------------------------------------
\* The codec by value: audioop.lin2ulaw(frame, 2) and audioop.ulaw2lin(mu, 2)
\* for one sample (G.711 mu-law as audioop computes it: the 16-bit sample is
\* reduced to 14 bits, biased, and coded as sign, segment and four bits)
\* ------------------------------------------------------------------------

BIAS == 132

CLIP == 32635

seg_uend == <<63, 127, 255, 511, 1023, 2047, 4095, 8191>>

\* search(): the first segment whose end is not below val, 8 when none is
Segment(val) ==
    IF val > seg_uend[8] THEN 8
    ELSE (CHOOSE i \in 1..8 : val <= seg_uend[i] /\ \A j \in 1..(i - 1) : val > seg_uend[j]) - 1

\* Mutant: the bias is not added before the segment is searched
Lin2ulawNoBias(x) ==
    LET v    == x \div 4
        mag0 == IF v < 0 THEN -v ELSE v
        mag  == IF mag0 > CLIP THEN CLIP ELSE mag0
        seg  == Segment(mag)
        uval == IF seg >= 8 THEN 127 ELSE seg * 16 + ((mag \div 2^(seg + 1)) % 16)
    IN  (IF v < 0 THEN 127 ELSE 255) - uval

\* audioop.lin2ulaw for one 16-bit sample x: the companded byte (all bits
\* inverted, as mu-law is sent)
Lin2ulaw(x) ==
    LET v    == x \div 4
        mag0 == IF v < 0 THEN -v ELSE v
        mag  == (IF mag0 > CLIP THEN CLIP ELSE mag0) + (BIAS \div 4)
        seg  == Segment(mag)
        uval == IF seg >= 8 THEN 127 ELSE seg * 16 + ((mag \div 2^(seg + 1)) % 16)
    IN  (IF v < 0 THEN 127 ELSE 255) - uval

\* audioop.ulaw2lin for one companded byte u: the 16-bit sample
Ulaw2lin(u) ==
    LET c == 255 - u
        t == (((c % 16) * 8) + BIAS) * 2^((c % 128) \div 16)
    IN  IF c >= 128 THEN BIAS - t ELSE t - BIAS

\* The quantisation step, in 16-bit units, of the segment of the byte u
StepOf(u) == 8 * 2^(((255 - u) % 128) \div 16)

\* Every 16-bit sample
Samples == (-32768)..32767

CodecInit ==
    /\ BridgeInit
    /\ ENABLE_LOCAL_PLAYBACK = FALSE
    /\ OPENAI_API_KEY = TRUE
    /\ twilio_sender = NoSender

\* A sample x enters the codec
CodecSample(x) ==
    /\ codec.pc = "idle"
    /\ codec' = [pc |-> "lin", x |-> x, u |-> 0, y |-> 0]
    /\ UNCHANGED <<config_vars, main_vars, packer_vars, client_vars, receiver_vars,
                   pump_vars, unit_vars, restart_vars, registry_vars>>

\* The sample is companded, as in _flush_full_frames
CodecCompress ==
    /\ codec.pc = "lin"
    /\ codec' = [codec EXCEPT !.pc = "ulaw", !.u = Lin2ulaw(codec.x)]
    /\ UNCHANGED <<config_vars, main_vars, packer_vars, client_vars, receiver_vars,
                   pump_vars, unit_vars, restart_vars, registry_vars>>

\* The byte is expanded, as in the media branch of audio_ws
CodecExpand ==
    /\ codec.pc = "ulaw"
    /\ codec' = [codec EXCEPT !.pc = "lin2", !.y = Ulaw2lin(codec.u)]
    /\ UNCHANGED <<config_vars, main_vars, packer_vars, client_vars, receiver_vars,
                   pump_vars, unit_vars, restart_vars, registry_vars>>

\* The samples that may enter: any, when the codec is idle
NextSamples == IF codec.pc = "idle" THEN Samples ELSE {}

CodecNext ==
    \/ \E x \in NextSamples : CodecSample(x)
    \/ CodecCompress
    \/ CodecExpand

SpecCodec == CodecInit /\ [][CodecNext]_vars

Abs(n) == IF n < 0 THEN -n ELSE n

\* C24: for every 16-bit sample x, the sample that ulaw2lin gives for the
\* byte lin2ulaw gives for x differs from x by no more than the
\* quantisation step of that byte's segment (8 for the lowest segment,
\* doubling up to 1024), has the sign of x or is zero, and is a 16-bit
\* sample; the byte is a byte.
C24_RoundTripWithinQuantisationStep ==
    /\ codec.pc \in {"ulaw", "lin2"} => codec.u \in 0..255
    /\ codec.pc = "lin2" =>
           /\ Abs(codec.y - codec.x) <= StepOf(codec.u)
           /\ codec.y \in Samples
           /\ codec.x >= 0 => codec.y >= 0
           /\ codec.x < 0 => codec.y <= 0

\* C24 witness: the most negative sample has gone through the codec and
\* came back clipped, 644 off, in the segment of step 1024
C24_Witness ==
    /\ codec.pc = "lin2"
    /\ codec.x = -32768
    /\ codec.u = 0
    /\ codec.y = -32124

\* ------------------------------------------------------------------------
\* The consumer and its flags: after start, the model socket delivers up to
\* MaxConsumerEvents messages of any recognised type in any order; the
\* telephony side sends nothing more, and telephony writes return or raise.
\* ------------------------------------------------------------------------

MaxConsumerEvents == 3

\* The events that carry no audio and are not the end of audio or response
NonAudioTypes ==
    {"session.created", "session.updated", "input_audio_buffer.speech_started",
     "input_audio_buffer.speech_stopped", "input_audio_buffer.committed",
     "response.created", "response.output_item.added", "error"}

\* One event of each recognised type, the delta with two frames and one
\* sample of audio, and a binary message of one frame of audio
ConsumerMessages ==
    {Event(t, <<>>) : t \in NonAudioTypes}
    \cup {Event("response.done", <<>>), Event("response.audio.done", <<>>),
          Event("response.audio.delta", <<1924>>), Binary(960)}

BoundedConsumerMessages ==
    IF Len(socket_in) < MaxConsumerEvents THEN ConsumerMessages ELSE {}

ConsumerInit == Init /\ OPENAI_API_KEY /\ ~ENABLE_LOCAL_PLAYBACK

ConsumerNext ==
    \/ \E sid \in StreamSids : FirstStart(sid)
    \/ OnOpen
    \/ WaitOpenTrue
    \/ WaitOpenFalse
    \/ CloseJoinDone
    \/ SenderThreadGet
    \/ \E m \in BoundedConsumerMessages : OnMessage(m)
    \/ LoopCall
    \/ OaiReceiverGet
    \/ \E ok \in BOOLEAN : OaiReceiverSendTextDone(ok)

SpecConsumer == ConsumerInit /\ [][ConsumerNext]_vars

\* The step is the consumer taking an event of one of the types ts off recv_q
Takes(ts) ==
    /\ OaiReceiverGet
    /\ Head(recv_q).kind = "text"
    /\ Head(recv_q).type \in ts

\* The incomplete remainder in the sender's buffer, in bytes
Remainder == BufLen(SenderBuffer) % frame_bytes

\* C25 (as claimed): after response.done is processed response_in_progress
\* and assistant_speaking are false; when response.audio.done is processed
\* assistant_speaking is false, and an incomplete remainder in the buffer
\* goes out as one zero-padded frame, after which the buffer is empty.
C25_DoneEventsResetAndFlushPadded ==
    /\ [][ Takes({"response.done"})
           => /\ ~conversation_state'.response_in_progress
              /\ ~conversation_state'.assistant_speaking ]_vars
    /\ [][ Takes(AudioDoneTypes)
           => /\ ~conversation_state'.assistant_speaking
              /\ Remainder > 0
                     => /\ Len(twilio_out') = Len(twilio_out) + 1
                        /\ twilio_out'[Len(twilio_out')].frame
                               = SenderBuffer \o Chunk(0, frame_bytes - Remainder)
                        /\ twilio_sender'.buffer = <<>> ]_vars

\* C25 (amended): after response.done is processed response_in_progress and
\* assistant_speaking are false and the speaking event is clear.  When
\* response.audio.done is taken, assistant_speaking becomes false at once;
\* with an open sender an incomplete remainder is padded with zeros and
\* handed to the telephony socket as one frame, and nothing is sent when the
\* buffer is empty; with a closed sender nothing is sent and the remainder
\* is discarded; in every case the buffer is empty from then on, and
\* assistant_speaking is still false when the flush has returned.
C25_DoneEventsResetAndFlushOpenSender ==
    /\ [][ Takes({"response.done"})
           => /\ ~conversation_state'.response_in_progress
              /\ ~conversation_state'.assistant_speaking
              /\ ~speaking'
              /\ oai_recv_task' = "get"
              /\ UNCHANGED <<twilio_sender, twilio_out>> ]_vars
    /\ [][ Takes(AudioDoneTypes)
           => /\ ~conversation_state'.assistant_speaking
              /\ ~speaking'
              /\ twilio_sender = NoSender
                     => oai_recv_task' = "get" /\ UNCHANGED <<twilio_sender, twilio_out>>
              /\ (twilio_sender # NoSender /\ ~twilio_sender.closed /\ Remainder > 0)
                     => /\ Len(twilio_out') = Len(twilio_out) + 1
                        /\ twilio_out'[Len(twilio_out')].frame
                               = SenderBuffer \o Chunk(0, frame_bytes - Remainder)
                        /\ twilio_sender'.buffer = <<>>
                        /\ oai_recv_task' = "flush"
              /\ (twilio_sender # NoSender /\ ~twilio_sender.closed /\ Remainder = 0)
                     => /\ twilio_out' = twilio_out
                        /\ twilio_sender'.buffer = <<>>
                        /\ oai_recv_task' = "get"
              /\ (twilio_sender # NoSender /\ twilio_sender.closed)
                     => /\ twilio_out' = twilio_out
                        /\ twilio_sender'.buffer = <<>>
                        /\ twilio_sender'.closed
                        /\ oai_recv_task' = "get" ]_vars
    /\ [](oai_recv_task = "flush"
            => ~conversation_state.assistant_speaking /\ SenderBuffer = <<>>)
    /\ [][ (oai_recv_task = "flush" /\ oai_recv_task' = "get")
           => /\ ~conversation_state'.assistant_speaking
              /\ SenderBuffer' = <<>>
              /\ twilio_out' = twilio_out ]_vars

\* C25 witness: a delta, response.audio.done and response.done have been
\* processed; two whole frames and the padded remainder went out, the
\* buffer is empty and the flags are false
C25_Witness ==
    /\ Len(processed) = 3
    /\ processed[1].type = "response.audio.delta"
    /\ processed[2].type = "response.audio.done"
    /\ processed[3].type = "response.done"
    /\ oai_recv_task = "get"
    /\ Len(twilio_out) = 3
    /\ BytesOf(twilio_out[3].frame, TRUE) = frame_bytes - 2
    /\ twilio_sender.buffer = <<>> /\ ~twilio_sender.closed
    /\ ~conversation_state.assistant_speaking
    /\ ~conversation_state.response_in_progress

\* The three flags of conversation_state other than f keep their values
OtherFlagsKept(f) ==
    \A g \in DOMAIN conversation_state \ {f} :
        conversation_state'[g] = conversation_state[g]

\* The step sends no audio, leaves the sender and its buffer alone and
\* leaves the consumer waiting for the next event
NoAudioAndRunning ==
    /\ UNCHANGED <<twilio_sender, twilio_out, handed, frames, speaking>>
    /\ oai_recv_task' = "get"

\* C26: each event without audio changes its own flag only: speech_started
\* sets and speech_stopped clears user_speaking, response.created sets
\* response_in_progress, session.created sets session_ready; session.updated,
\* input_audio_buffer.committed, response.output_item.added and error leave
\* all four flags as they are; none of them sends audio, changes the
\* sender's buffer or stops the consumer.
C26_NonAudioEventsChangeOwnFlagOnly ==
    /\ [][ Takes({"input_audio_buffer.speech_started"})
           => /\ conversation_state'.user_speaking
              /\ OtherFlagsKept("user_speaking") /\ NoAudioAndRunning ]_vars
    /\ [][ Takes({"input_audio_buffer.speech_stopped"})
           => /\ ~conversation_state'.user_speaking
              /\ OtherFlagsKept("user_speaking") /\ NoAudioAndRunning ]_vars
    /\ [][ Takes({"response.created"})
           => /\ conversation_state'.response_in_progress
              /\ OtherFlagsKept("response_in_progress") /\ NoAudioAndRunning ]_vars
    /\ [][ Takes({"session.created"})
           => /\ conversation_state'.session_ready
              /\ OtherFlagsKept("session_ready") /\ NoAudioAndRunning ]_vars
    /\ [][ Takes({"session.updated", "input_audio_buffer.committed",
                  "response.output_item.added", "error"})
           => /\ conversation_state' = conversation_state
              /\ NoAudioAndRunning ]_vars

\* C26 witness: with the assistant speaking and a response in progress,
\* speech_started was processed: user_speaking is set and the other flags,
\* the frames sent and the buffered remainder are as the delta left them
C26_Witness ==
    /\ Len(processed) = 3
    /\ processed[1].type = "response.created"
    /\ processed[2].type = "response.audio.delta"
    /\ processed[3].type = "input_audio_buffer.speech_started"
    /\ oai_recv_task = "get"
    /\ conversation_state.user_speaking
    /\ conversation_state.assistant_speaking
    /\ conversation_state.response_in_progress
    /\ ~conversation_state.session_ready
    /\ Len(twilio_out) = 2 /\ BufLen(SenderBuffer) = 2

\* The sender thread is about to take a message whose write will raise
WriteFails ==
    /\ sender_thread = "running" /\ send_q # <<>>
    /\ SenderTakes(send_q).msg # Sentinel
    /\ wsapp # "open"

\* The sender thread ended on a failed write: it has ended, and every stop
\* signal that close put on the queue is still there
EndedByFailedWrite ==
    /\ sender_thread = "exited"
    /\ Cardinality({i \in 1..Len(log) : log[i] = "close"})
         = Cardinality({i \in 1..Len(send_q) : send_q[i] = Sentinel})

\* C27: a write that raises ends the sender thread and reaches no caller:
\* the step changes nothing but the queue and the thread.  Once the thread
\* has ended it stays ended, nothing more is written to the socket, and the
\* queue only grows, so every message submitted afterwards stays queued;
\* send_json can still be called and does nothing but append to the queue.
C27_FailedWriteEndsSenderQuietly ==
    /\ [][ (WriteFails /\ SenderThreadGet)
           => /\ sender_thread' = "exited"
              /\ send_q' = Tail(send_q)
              /\ UNCHANGED <<socket_out, wsapp, opened, recv_q, loop_calls,
                             log, sent_json>> ]_vars
    /\ [][ sender_thread = "exited"
           => /\ sender_thread' = "exited"
              /\ socket_out' = socket_out
              /\ IsPrefix(send_q, send_q') ]_vars
    /\ [][ (sender_thread = "exited" /\ CallSendJson)
           => /\ Len(send_q') = Len(send_q) + 1
              /\ send_q'[Len(send_q')] = sent_json'[Len(sent_json')][2]
              /\ UNCHANGED <<wsapp, opened, recv_q, loop_calls>> ]_vars
    /\ []((sender_thread = "exited" /\ Len(log) < MaxClientCalls)
            => ENABLED CallSendJson)

\* C27 witness: the first message was written, the socket failed, the write
\* of the second raised and ended the thread, and the third, submitted
\* after that, is on the queue and not on the socket
C27_Witness ==
    /\ log = <<"start", "send_json", "send_json", "send_json">>
    /\ EndedByFailedWrite
    /\ wsapp \in {"errored", "closed"}
    /\ Len(socket_out) = 1
    /\ send_q = <<sent_json[3][2]>>

\* C28: the padded flush of stop discards no audio: when it returns from an
\* open sender whose telephony write returned, every byte of audio that was
\* in the buffer or in a frame before, whichever task appended it, is in a
\* frame handed to the telephony socket.
C28_NoAudioDiscardedByPaddedFlush ==
    [][ ( /\ StopFlushSendTextDone(TRUE)
          /\ ~twilio_sender.closed
          /\ main_pc' # "stop_flush" )
        => FrameBytesOf(twilio_out', FALSE) = AudioTotal ]_vars

\* C29: when the consumer has forwarded a chunk of assistant audio to the
\* sender (handle_assistant_audio returned and counted it), from a delta
\* event or from a binary message, assistant_speaking is true; and it stays
\* true until response.audio.done or response.done is processed.
C29_SpeakingFromForwardedAudioUntilDone ==
    /\ [][ (twilio_sender # NoSender /\ frames' = frames + 1)
           => conversation_state'.assistant_speaking ]_vars
    /\ [][ (conversation_state.assistant_speaking
              /\ ~conversation_state'.assistant_speaking)
           => Takes(AudioDoneTypes \cup {"response.done"}) ]_vars

\* C30 (as claimed): once the finally block of audio_ws has completed, a
\* sender that was created is closed with an empty buffer and stays so, the
\* consumer runs no more, and no media message is handed to the telephony
\* socket any more, whatever is on recv_q or is put on it later.  The
\* finally block reaches the tasks and the sender the variables name; the
\* _oai_receiver of a start event before the last one keeps its own sender
\* and its client's recv_q (SupersededReceiverGet)
C30_NothingSentAfterTeardown ==
    /\ []((main_pc = "done" /\ twilio_sender # NoSender) => MarkedClosed)
    /\ [](main_pc = "done" => oai_recv_task \in {None, "cancelled", "failed", "done"})
    /\ [][ main_pc = "done"
           => /\ main_pc' = "done"
              /\ UNCHANGED <<twilio_out, twilio_sender, processed>> ]_vars

\* ------------------------------------------------------------------------
\* The speaking event, created once per connection (src/app.py:417) and
\* handed to every _oai_receiver the connection starts, next to the
\* conversation_state each _oai_receiver creates for itself
\* ------------------------------------------------------------------------

\* The model sends audio and its end
SpeakingMessages ==
    {Event("response.audio.delta", <<1924>>), Event("response.audio.done", <<>>)}

\* The number of messages the sockets of the clients before delivered
RECURSIVE DeliveredBefore(_)
DeliveredBefore(sup) ==
    IF sup = <<>> THEN 0 ELSE Len(Head(sup).socket_in) + DeliveredBefore(Tail(sup))

BoundedSpeakingMessages ==
    IF Len(socket_in) + DeliveredBefore(superseded) < MaxEvents
    THEN SpeakingMessages ELSE {}

\* on_close after close() was called on the client
OnCloseAfterClose == wsapp = "closing" /\ OnClose

\* The connection with start events and model audio in any order.  The
\* telephony side sends start events and disconnects, and no media; the
\* model sockets open or not, have no transport error and are not closed
\* by the model, which sends to the client the variable oai_client names;
\* no write to the telephony socket fails.
\* Every task and thread of the connection runs: the receive loop, the
\* socket and sender threads, the event loop's callbacks, and the
\* _oai_receiver and _oai_sender tasks of every start event.
RestartSpeakingNext ==
    \/ \E sid \in StreamSids : ReceiveStart(sid)
    \/ ReceiveDisconnect
    \/ OnOpen
    \/ PendingOnOpen
    \/ WaitOpenTrue
    \/ WaitOpenFalse
    \/ WaitOpenAgainTrue
    \/ WaitOpenAgainFalse
    \/ CloseJoinDone
    \/ FinallyFlushSendTextDone(TRUE)
    \/ OnCloseAfterClose
    \/ PendingOnClose
    \/ PendingLoopCall
    \/ \E i \in DOMAIN superseded : SupersededLoopCall(i)
    \/ \E m \in BoundedSpeakingMessages : OnMessage(m)
    \/ LoopCall
    \/ SenderThreadGet
    \/ OaiReceiverGet
    \/ OaiReceiverSendTextDone(TRUE)
    \/ \E i \in DOMAIN superseded : SupersededSenderThreadGet(i)
    \/ \E i \in DOMAIN superseded : SupersededSenderGet(i)
    \/ \E i \in DOMAIN superseded : SupersededReceiverGet(i)
    \/ \E i \in DOMAIN superseded : SupersededReceiverSendTextDone(i, TRUE)

SpecRestartSpeaking == RestartInit /\ [][RestartSpeakingNext]_vars

\* C31: whenever the consumer waits for its next event, the speaking event
\* is set if and only if assistant_speaking is true.
C31_SpeakingSignalMatchesFlag ==
    oai_recv_task = "get"
        => (speaking <=> conversation_state.assistant_speaking)

\* ------------------------------------------------------------------------
\* The live-translation backend: the registry of calls of the Flask app and
\* the registry of sessions of ChatGPTRealtimeTranslator.  Requests arrive
\* one at a time; the calls to Twilio and to the OpenAI client return or
\* raise.  Only the keys and the status of the entries are kept: no
\* operation reads the languages or the time stamps back into a registry.
\* ------------------------------------------------------------------------

MaxBackendCalls == 4

\* The sids Twilio issues, and the ids a request may name
CallSids == {"CA1", "CA2"}

\* d[k] = v, and del d[k], on a dict d
DictSet(d, k, v) == (k :> v) @@ d

DictDel(d, k) == [j \in DOMAIN d \ {k} |-> d[j]]

\* create_translation_session: the entry is stored unless sessions.create raises
CreateTranslationSession(sessions, session_id, ok) ==
    IF ok THEN [active_sessions |-> DictSet(sessions, session_id, [status |-> "active"]),
                raised |-> FALSE]
    ELSE [active_sessions |-> sessions, raised |-> TRUE]

\* process_audio: ValueError for an unknown id, else the speech call
\* returns or raises; the registry is not written
ProcessAudio(sessions, session_id, ok) ==
    [active_sessions |-> sessions,
     raised |-> session_id \notin DOMAIN sessions \/ ~ok]

\* end_session: ValueError for an unknown id; else session.close() and, if
\* it returned, del self.active_sessions[session_id]
EndSession(sessions, session_id, ok) ==
    IF session_id \in DOMAIN sessions /\ ok
    THEN [active_sessions |-> DictDel(sessions, session_id), raised |-> FALSE]
    ELSE [active_sessions |-> sessions, raised |-> TRUE]

\* The reply to the n-th request
Reply(op, id, status) == [n |-> reply.n + 1, op |-> op, id |-> id, status |-> status]

BackendInit ==
    /\ Init
    /\ OPENAI_API_KEY /\ ~ENABLE_LOCAL_PLAYBACK
    /\ twilio_sender = NoSender

\* The functions of app.py that are written def, not async def, and hold
\* an await expression: start_call (line 76) and end_call (line 180)
PlainDefsWithAwait == {"start_call", "end_call"}

\* Python compiles app.py: 'await' outside async function is a SyntaxError
\* for the module as a whole, so that it is never imported, no route
\* exists and active_calls is never written
AppCompiles == PlainDefsWithAwait = {}

\* POST /start-call.  The module does not compile: the request finds no
\* server and nothing is written.  (As the handler reads: 400 without a
\* number; Twilio creates the call with a sid it has not issued before, or
\* raises; the session is created, or raises; then the call is stored.)
StartCall(sid, has_number, call_ok, session_ok) ==
    /\ reply.n < MaxBackendCalls
    /\ sid \notin DOMAIN active_calls
    /\ LET r == CreateTranslationSession(active_sessions, sid, session_ok)
       IN  IF ~AppCompiles
           THEN /\ reply' = Reply("start_call", None, "SyntaxError")
                /\ UNCHANGED <<active_calls, active_sessions>>
           ELSE IF ~has_number
           THEN /\ reply' = Reply("start_call", None, "400")
                /\ UNCHANGED <<active_calls, active_sessions>>
           ELSE IF ~call_ok \/ r.raised
           THEN /\ reply' = Reply("start_call", None, "500")
                /\ UNCHANGED <<active_calls, active_sessions>>
           ELSE /\ active_sessions' = r.active_sessions
                /\ active_calls' = DictSet(active_calls, sid, [status |-> "initiated"])
                /\ reply' = Reply("start_call", sid, "200")
    /\ UNCHANGED <<config_vars, main_vars, packer_vars, client_vars, receiver_vars,
                   pump_vars, unit_vars, restart_vars, codec_vars>>

\* POST /end-call/<call_sid>.  The module does not compile: the request
\* finds no server and nothing is written.  (As the handler reads: 404 for
\* an unknown call; else end_session, the entry's status becomes 'ended',
\* and Twilio hangs up, or raises.)
EndCall(call_sid, close_ok, update_ok) ==
    /\ reply.n < MaxBackendCalls
    /\ LET r == EndSession(active_sessions, call_sid, close_ok)
       IN  IF ~AppCompiles
           THEN /\ reply' = Reply("end_call", call_sid, "SyntaxError")
                /\ UNCHANGED <<active_calls, active_sessions>>
           ELSE IF call_sid \notin DOMAIN active_calls
           THEN /\ reply' = Reply("end_call", call_sid, "404")
                /\ UNCHANGED <<active_calls, active_sessions>>
           ELSE IF r.raised
           THEN /\ reply' = Reply("end_call", call_sid, "500")
                /\ UNCHANGED <<active_calls, active_sessions>>
           ELSE /\ active_sessions' = r.active_sessions
                /\ active_calls' = [active_calls EXCEPT ![call_sid].status = "ended"]
                /\ reply' = Reply("end_call", call_sid,
                                  IF update_ok THEN "200" ELSE "500")
    /\ UNCHANGED <<config_vars, main_vars, packer_vars, client_vars, receiver_vars,
                   pump_vars, unit_vars, restart_vars, codec_vars>>

\* A caller of the translator: create_translation_session(session_id, ...)
CallCreateTranslationSession(session_id, ok) ==
    /\ reply.n < MaxBackendCalls
    /\ LET r == CreateTranslationSession(active_sessions, session_id, ok)
       IN  /\ active_sessions' = r.active_sessions
           /\ reply' = Reply("create_translation_session", session_id,
                             IF r.raised THEN "raised" ELSE "returned")
    /\ UNCHANGED <<config_vars, main_vars, packer_vars, client_vars, receiver_vars,
                   pump_vars, unit_vars, restart_vars, codec_vars, active_calls>>

\* A caller of the translator: process_audio(session_id, audio_data)
CallProcessAudio(session_id, ok) ==
    /\ reply.n < MaxBackendCalls
    /\ LET r == ProcessAudio(active_sessions, session_id, ok)
       IN  /\ active_sessions' = r.active_sessions
           /\ reply' = Reply("process_audio", session_id,
                             IF r.raised THEN "raised" ELSE "returned")
    /\ UNCHANGED <<config_vars, main_vars, packer_vars, client_vars, receiver_vars,
                   pump_vars, unit_vars, restart_vars, codec_vars, active_calls>>

\* A caller of the translator: end_session(session_id)
CallEndSession(session_id, ok) ==
    /\ reply.n < MaxBackendCalls
    /\ LET r == EndSession(active_sessions, session_id, ok)
       IN  /\ active_sessions' = r.active_sessions
           /\ reply' = Reply("end_session", session_id,
                             IF r.raised THEN "raised" ELSE "returned")
    /\ UNCHANGED <<config_vars, main_vars, packer_vars, client_vars, receiver_vars,
                   pump_vars, unit_vars, restart_vars, codec_vars, active_calls>>

BackendNext ==
    \/ \E sid \in CallSids, n, c, s \in BOOLEAN : StartCall(sid, n, c, s)
    \/ \E sid \in CallSids, c, u \in BOOLEAN : EndCall(sid, c, u)
    \/ \E sid \in CallSids, ok \in BOOLEAN : CallCreateTranslationSession(sid, ok)
    \/ \E sid \in CallSids, ok \in BOOLEAN : CallProcessAudio(sid, ok)
    \/ \E sid \in CallSids, ok \in BOOLEAN : CallEndSession(sid, ok)

SpecBackend == BackendInit /\ [][BackendNext]_vars

\* The step is the operation op, answered with status
Answered(op, status) ==
    reply'.n = reply.n + 1 /\ reply'.op = op /\ reply'.status = status

\* C32: a call that start_call is asked to start, with a number and with
\* Twilio and the translator answering, is in active_calls and in
\* active_sessions afterwards, and a session create_translation_session
\* returns for is in active_sessions; after end_call the id is in neither
\* registry, and after end_session it is not in active_sessions;
\* process_audio and end_session for an id that is not registered raise and
\* leave both registries as they are.
C32_RegistriesInsertOnStartRemoveOnTeardown ==
    /\ [][ \A sid \in CallSids :
               StartCall(sid, TRUE, TRUE, TRUE)
                   => /\ sid \in DOMAIN active_calls'
                      /\ sid \in DOMAIN active_sessions' ]_vars
    /\ [][ Answered("create_translation_session", "returned")
           => reply'.id \in DOMAIN active_sessions' ]_vars
    /\ [][ \A sid \in CallSids :
               (sid \in DOMAIN active_calls /\ EndCall(sid, TRUE, TRUE))
                   => /\ sid \notin DOMAIN active_calls'
                      /\ sid \notin DOMAIN active_sessions' ]_vars
    /\ [][ Answered("end_session", "returned")
           => reply'.id \notin DOMAIN active_sessions' ]_vars
    /\ [][ ( /\ reply'.n = reply.n + 1
             /\ reply'.op \in {"process_audio", "end_session"}
             /\ reply'.id \notin DOMAIN active_sessions )
           => /\ reply'.status = "raised"
              /\ UNCHANGED <<active_calls, active_sessions>> ]_vars

====
